---- MODULE Spec2Model ----
(***************************************************************************)
(* Serving runtime of DIANA (ml/server.py, ml/predict.py,                  *)
(* ml/ab_testing.py): model-artifact loading, the lazy predictor manager,  *)
(* the sliding-window rate limiter, the A/B test router and the /predict   *)
(* request handler.                                                        *)
(*                                                                         *)
(* The module holds several specifications over one set of variables; each *)
(* specification drives one component and leaves the others' variables     *)
(* unchanged:                                                              *)
(*   SpecLoad   safe_load_model and the predictor constructors             *)
(*   SpecPM     PredictorManager under concurrent callers                  *)
(*   SpecRL     RateLimiter.is_allowed under concurrent callers            *)
(*   SpecAB     ABTestManager configuration and routing                    *)
(*   SpecServe  the /predict request handler                               *)
(***************************************************************************)
EXTENDS Integers, Sequences, FiniteSets, TLC

VARIABLES
    \* ---- file system and environment (ml/predict.py) ----
    env,            \* os.environ.get('ENV')
    manifest,       \* models/model_hashes.json: whether it exists, file name -> digest
    files,          \* path -> content of the artifact, or Absent
    loaded,         \* outcome of the last safe_load_model / constructor call
    \* ---- PredictorManager (ml/server.py) ----
    slots,          \* _predictor / _clinical_predictor, by model
    pm_lock,        \* PredictorManager._lock: the holding thread, or None
    pm_pc,          \* each thread's position in get_predictor / get_clinical_predictor
    pm_model,       \* the model a thread's current call is for
    pm_obj,         \* the object a thread is constructing
    pm_ret,         \* what a thread's last call returned or raised
    attempts,       \* constructor invocations, by model
    built,          \* objects whose __init__ has returned
    handed,         \* objects returned to a caller
    \* ---- RateLimiter (ml/server.py) ----
    clock,          \* time.time(), in ticks
    minute_requests,    \* client -> timestamps kept for the 60 s window
    second_requests,    \* client -> timestamps kept for the 1 s window
    rl_lock,        \* RateLimiter._lock: the holding thread, or NoThread
    rl_pc,          \* each thread's position in is_allowed
    rl_client,      \* the client id of a thread's current call
    rl_now,         \* "now" of a thread's current call (line 105)
    rl_cut,         \* the clock a thread's two purges read: [m |-> , s |-> ]
    rl_ret,         \* what the last is_allowed call to return returned, and to whom
    admitted,       \* client -> every timestamp ever admitted (history)
    \* ---- ABTestManager (ml/ab_testing.py) ----
    tests,          \* _tests: test name -> ABTestConfig
    tests_file,     \* ab_tests.json
    predictions,    \* _predictions: list of PredictionRecord
    predictions_file,   \* ab_predictions.json
    incarnation,    \* how many times the process has been restarted
    io_budget,      \* how many more writes the store may fail
    ab_ret,         \* what the last ABTestManager call returned or raised
    ab_pin,         \* one earlier route_request call, its test's config and its result
    \* ---- /predict (ml/server.py) ----
    response,       \* the last request to POST /predict and the answer it got
    instance,       \* the module globals _manager and _monitor (0: None)
    sg_made,        \* how many ABTestManager / DriftMonitor objects were constructed
    sg_call,        \* each thread's call of get_ab_manager / get_drift_monitor
    \* ---- concurrent record_prediction (ml/ab_testing.py) ----
    rp_pc,          \* each thread's position in record_prediction
    \* ---- DriftMonitor (ml/drift_detection.py) ----
    reference_data, \* self.reference_data: the reference set in force
    dm_pc,          \* each thread's position in check_feature_drift
    dm_todo,        \* the features a thread's check has still to evaluate
    dm_seen,        \* feature -> the reference set a thread's check read it from
    dm_ret,         \* what the last DriftMonitor call returned or raised
    alerts,         \* self.alerts
    alerts_file,    \* alerts.json
    reference_file  \* reference_data.json

fsVars == <<env, manifest, files, loaded>>
pmVars == <<slots, pm_lock, pm_pc, pm_model, pm_obj, pm_ret, attempts, built, handed>>
rlVars == <<clock, minute_requests, second_requests, rl_lock, rl_pc, rl_client, rl_now,
            rl_cut, rl_ret, admitted>>
abVars == <<tests, tests_file, predictions, predictions_file, incarnation, io_budget,
            ab_ret, ab_pin>>
srvVars == <<response, instance, sg_made, sg_call>>
logVars == <<rp_pc>>
dmVars == <<reference_data, dm_pc, dm_todo, dm_seen, dm_ret, alerts, alerts_file,
            reference_file>>
vars == <<fsVars, pmVars, rlVars, abVars, srvVars, logVars, dmVars>>

None == "None"

\* The value None in a place that otherwise holds an object.
NoObj == <<>>

\* The lock holder when a lock is free.
NoThread == 0

(***************************************************************************)
(* Model artifacts on disk (ml/predict.py)                                 *)
(***************************************************************************)
Absent == "absent"
NoEntry == "no_entry"

\* Artifact contents. A content stands for a serialised estimator; the two
\* differ in their digest and in n_features_in_.
Contents == {"est6", "est7"}

\* compute_file_hash: SHA-256 of the content (injective on Contents).
compute_file_hash(c) == IF c = "est6" THEN "sha256_est6" ELSE "sha256_est7"

\* A digest recorded in the manifest that matches no artifact on disk.
StaleDigest == "sha256_stale"

n_features_in(c) == IF c = "est6" THEN "six" ELSE "seven"

Names == {"scaler.joblib", "random_forest.joblib", "best_model.joblib", "kmeans_model.joblib"}
Dirs == {"models", "models/clinical"}
Paths == (Dirs \X Names) \ {<<"models/clinical", "random_forest.joblib">>}

PathName(p) == p[2]

Envs == {"production", "development"}
Digests == {compute_file_hash(c) : c \in Contents} \cup {StaleDigest}

\* The manifest file: whether it exists, and the digest it records per file name.
NoManifest == [exists |-> FALSE, entries |-> [n \in Names |-> NoEntry]]

\* verify_model_integrity without the production branches: a missing manifest
\* or entry is only ever a warning.
verify_model_integrity_lenient(p) ==
    IF ~manifest.exists \/ manifest.entries[PathName(p)] = NoEntry
    THEN [ok |-> TRUE, raised |-> None, logged |-> "warning"]
    ELSE IF files[p] = Absent
    THEN [ok |-> FALSE, raised |-> "FileNotFoundError", logged |-> "none"]
    ELSE IF compute_file_hash(files[p]) # manifest.entries[PathName(p)]
    THEN [ok |-> FALSE, raised |-> None, logged |-> "error"]
    ELSE [ok |-> TRUE, raised |-> None, logged |-> "none"]

\* verify_model_integrity(filepath): TRUE / FALSE, or the exception raised
\* by opening a file that is not there; with the level it logged at.
verify_model_integrity(p) ==
    IF ~manifest.exists
    THEN IF env = "production"
         THEN [ok |-> FALSE, raised |-> None, logged |-> "error"]
         ELSE [ok |-> TRUE, raised |-> None, logged |-> "warning"]
    ELSE IF manifest.entries[PathName(p)] = NoEntry
    THEN IF env = "production"
         THEN [ok |-> FALSE, raised |-> None, logged |-> "error"]
         ELSE [ok |-> TRUE, raised |-> None, logged |-> "warning"]
    ELSE IF files[p] = Absent
    THEN [ok |-> FALSE, raised |-> "FileNotFoundError", logged |-> "none"]
    ELSE IF compute_file_hash(files[p]) # manifest.entries[PathName(p)]
    THEN [ok |-> FALSE, raised |-> None, logged |-> "error"]
    ELSE [ok |-> TRUE, raised |-> None, logged |-> "none"]

\* safe_load_model(filepath): the loaded content, or the exception raised.
\* joblib.load is reached only when verification returned True.
safe_load_model(p) ==
    LET v == verify_model_integrity(p) IN
    IF v.raised # None
    THEN [raised |-> v.raised, value |-> None, logged |-> v.logged, joblib |-> FALSE]
    ELSE IF ~v.ok
    THEN [raised |-> "SecurityError", value |-> None, logged |-> v.logged, joblib |-> FALSE]
    ELSE IF files[p] = Absent
    THEN [raised |-> "FileNotFoundError", value |-> None, logged |-> v.logged, joblib |-> TRUE]
    ELSE [raised |-> None, value |-> files[p], logged |-> v.logged, joblib |-> TRUE]

Exists(p) == files[p] # Absent

\* DianaPredictor.__init__: the exception it raises, or None when every
\* artifact was loaded.
DianaPredictor_init ==
    LET d == "models"
        scaler == safe_load_model(<<d, "scaler.joblib">>)
        rf == safe_load_model(<<d, "random_forest.joblib">>)
        best == safe_load_model(<<d, "best_model.joblib">>)
        kmeans == safe_load_model(<<d, "kmeans_model.joblib">>)
        classifier ==
            IF Exists(<<d, "random_forest.joblib">>)
            THEN IF rf.raised # None THEN rf.raised
                 ELSE IF n_features_in(rf.value) = n_features_in(scaler.value) THEN None
                 ELSE IF Exists(<<d, "best_model.joblib">>) THEN best.raised
                 ELSE None
            ELSE IF Exists(<<d, "best_model.joblib">>) THEN best.raised
            ELSE "FileNotFoundError"
    IN  IF scaler.raised # None THEN scaler.raised
        ELSE IF classifier # None THEN classifier
        ELSE kmeans.raised

\* ClinicalPredictor.__init__.
ClinicalPredictor_init ==
    LET d == "models/clinical"
        scaler == safe_load_model(<<d, "scaler.joblib">>)
        best == safe_load_model(<<d, "best_model.joblib">>)
        kmeans == safe_load_model(<<d, "kmeans_model.joblib">>)
    IN  IF ~Exists(<<d, "best_model.joblib">>) THEN "FileNotFoundError"
        ELSE IF scaler.raised # None THEN scaler.raised
        ELSE IF best.raised # None THEN best.raised
        ELSE IF Exists(<<d, "kmeans_model.joblib">>) THEN kmeans.raised
        ELSE None

Models == {"ada", "clinical"}

Construct(m) == IF m = "ada" THEN DianaPredictor_init ELSE ClinicalPredictor_init

(***************************************************************************)
(* Deployments the checks start from                                       *)
(***************************************************************************)
\* The deployment in which every artifact is present and matches the manifest.
HealthyFiles == [p \in Paths |-> "est6"]
HealthyManifest == [exists |-> TRUE, entries |-> [n \in Names |-> compute_file_hash("est6")]]

FileStates == Contents \cup {Absent}
ManifestEntries == Digests \cup {NoEntry}

\* How far a deployment is from the healthy one.
MaxFaults == 2

FileFaults(f) == Cardinality({p \in Paths : f[p] # HealthyFiles[p]})
ManifestFaults(mf) ==
    IF ~mf.exists THEN 1
    ELSE Cardinality({n \in Names : mf.entries[n] # HealthyManifest.entries[n]})
EnvFaults(e) == IF e = "production" THEN 0 ELSE 1

FileSystems == {f \in [Paths -> FileStates] : FileFaults(f) <= MaxFaults}
Manifests ==
    {NoManifest} \cup
    {mf \in [exists : {TRUE}, entries : [Names -> ManifestEntries]] : ManifestFaults(mf) <= MaxFaults}

FsInitFaulty ==
    /\ env \in Envs
    /\ manifest \in Manifests
    /\ files \in FileSystems
    /\ FileFaults(files) + ManifestFaults(manifest) + EnvFaults(env) <= MaxFaults
    /\ loaded = [op |-> "none"]

\* The deployments the concurrent specifications start from: healthy, or one
\* artifact missing or altered.
FsInitScenario ==
    /\ env = "production"
    /\ manifest = HealthyManifest
    /\ \E p \in {<<"models", "scaler.joblib">>, <<"models/clinical", "best_model.joblib">>,
                  <<"models/clinical", "scaler.joblib">>} :
          \E c \in FileStates : files = [HealthyFiles EXCEPT ![p] = c]
    /\ loaded = [op |-> "none"]

(***************************************************************************)
(* SpecLoad: safe_load_model and the constructors over faulty deployments  *)
(***************************************************************************)
LoadModel(p) ==
    /\ loaded' = [op |-> "safe_load_model", path |-> p, res |-> safe_load_model(p)]
    /\ UNCHANGED <<env, manifest, files>>

NewPredictor(m) ==
    /\ loaded' = [op |-> "init", model |-> m, raised |-> Construct(m)]
    /\ UNCHANGED <<env, manifest, files>>

(***************************************************************************)
(* PredictorManager (ml/server.py)                                         *)
(***************************************************************************)
NThreads == 2
Threads == 1..NThreads

\* Cap on constructor invocations per model (failed constructions repeat).
MaxAttempts == 3

PmInit ==
    /\ slots = [m \in Models |-> NoObj]
    /\ pm_lock = NoThread
    /\ pm_pc = [t \in Threads |-> "idle"]
    /\ pm_model = [t \in Threads |-> None]
    /\ pm_obj = [t \in Threads |-> NoObj]
    /\ pm_ret = [t \in Threads |-> [kind |-> "pending"]]
    /\ attempts = [m \in Models |-> 0]
    /\ built = {}
    /\ handed = {}

\* A caller enters get_predictor() or get_clinical_predictor().
PM_Call(t, m) ==
    /\ pm_pc[t] = "idle"
    /\ pm_pc' = [pm_pc EXCEPT ![t] = "check1"]
    /\ pm_model' = [pm_model EXCEPT ![t] = m]
    /\ pm_ret' = [pm_ret EXCEPT ![t] = [kind |-> "pending"]]
    /\ UNCHANGED <<slots, pm_lock, pm_obj, attempts, built, handed>>

\* The first, unlocked test: "if self._predictor is None".
SlotIsNone(m) == slots[m] = NoObj

PM_Check1(t) ==
    /\ pm_pc[t] = "check1"
    /\ pm_pc' = [pm_pc EXCEPT ![t] = IF SlotIsNone(pm_model[t]) THEN "acquire" ELSE "return"]
    /\ UNCHANGED <<slots, pm_lock, pm_model, pm_obj, pm_ret, attempts, built, handed>>

\* "with self._lock": blocks while another thread holds the lock.
PM_Acquire(t) ==
    /\ pm_pc[t] = "acquire"
    /\ pm_lock = NoThread
    /\ pm_lock' = t
    /\ pm_pc' = [pm_pc EXCEPT ![t] = "check2"]
    /\ UNCHANGED <<slots, pm_model, pm_obj, pm_ret, attempts, built, handed>>

RecheckSkipped(m) == TRUE

\* The second test, made while holding the lock.
RecheckUnderLock(m) == slots[m] = NoObj

PM_Check2(t) ==
    /\ pm_pc[t] = "check2"
    /\ IF RecheckUnderLock(pm_model[t])
       THEN /\ pm_pc' = [pm_pc EXCEPT ![t] = "construct"]
            /\ UNCHANGED pm_lock
       ELSE /\ pm_pc' = [pm_pc EXCEPT ![t] = "return"]
            /\ pm_lock' = NoThread
    /\ UNCHANGED <<slots, pm_model, pm_obj, pm_ret, attempts, built, handed>>

\* The constructor is entered: a new object exists, not yet initialised.
PM_ConstructBegin(t) ==
    /\ pm_pc[t] = "construct"
    /\ attempts[pm_model[t]] < MaxAttempts
    /\ attempts' = [attempts EXCEPT ![pm_model[t]] = @ + 1]
    /\ pm_obj' = [pm_obj EXCEPT ![t] = <<pm_model[t], attempts[pm_model[t]] + 1>>]
    /\ pm_pc' = [pm_pc EXCEPT ![t] = "init"]
    /\ UNCHANGED <<slots, pm_lock, pm_model, pm_ret, built, handed>>

\* The constructor returns or raises. On return the slot is assigned; a
\* FileNotFoundError is turned into "return None" by get_clinical_predictor
\* only; leaving the with-block releases the lock either way.
PM_ConstructEnd(t) ==
    LET m == pm_model[t]
        raised == Construct(m)
    IN  /\ pm_pc[t] = "init"
        /\ pm_lock' = NoThread
        /\ pm_obj' = [pm_obj EXCEPT ![t] = NoObj]
        /\ IF raised = None
           THEN /\ built' = built \cup {pm_obj[t]}
                /\ slots' = [slots EXCEPT ![m] = pm_obj[t]]
                /\ pm_pc' = [pm_pc EXCEPT ![t] = "return"]
                /\ UNCHANGED pm_ret
           ELSE /\ pm_pc' = [pm_pc EXCEPT ![t] = "idle"]
                /\ pm_ret' = [pm_ret EXCEPT ![t] =
                        IF m = "clinical" /\ raised = "FileNotFoundError"
                        THEN [kind |-> "none"]
                        ELSE [kind |-> "raised", exc |-> raised]]
                /\ UNCHANGED <<slots, built>>
        /\ UNCHANGED <<pm_model, attempts, handed>>

\* "return self._predictor": the slot is read again.
PM_Return(t) ==
    /\ pm_pc[t] = "return"
    /\ pm_ret' = [pm_ret EXCEPT ![t] = [kind |-> "handle", obj |-> slots[pm_model[t]]]]
    /\ handed' = handed \cup {slots[pm_model[t]]}
    /\ pm_pc' = [pm_pc EXCEPT ![t] = "idle"]
    /\ UNCHANGED <<slots, pm_lock, pm_model, pm_obj, attempts, built>>

(***************************************************************************)
(* RateLimiter (ml/server.py)                                              *)
(***************************************************************************)
Clients == {"key-a"}

\* The limits the limiter is constructed with.
requests_per_second == 2
requests_per_minute == 3

\* Window lengths in seconds, as passed to _cleanup_old.
MinuteWindow == 60
SecondWindow == 1

\* Clock resolution, and the instants at which the clock is read: the first
\* second (inclusive of its end) of each of two consecutive minutes.
TicksPerSecond == 2
Instants == {k * MinuteWindow * TicksPerSecond + j : k \in {0, 1}, j \in 0..TicksPerSecond}

RECURSIVE Filter(_, _, _)
\* [t for t in requests_list if Keep(t, cutoff)], order kept.
Filter(list, cutoff, strict) ==
    IF list = <<>> THEN <<>>
    ELSE IF (IF strict THEN Head(list) > cutoff ELSE Head(list) >= cutoff)
         THEN <<Head(list)>> \o Filter(Tail(list), cutoff, strict)
         ELSE Filter(Tail(list), cutoff, strict)

\* _cleanup_old keeping the timestamp that lies exactly on the cutoff.
cleanup_old_inclusive(requests_list, window) ==
    Filter(requests_list, clock - window * TicksPerSecond, FALSE)

\* _cleanup_old(requests_list, window): reads the clock itself.
cleanup_old(requests_list, window) ==
    Filter(requests_list, clock - window * TicksPerSecond, TRUE)

RlInit ==
    /\ clock = 0
    /\ minute_requests = [c \in Clients |-> <<>>]
    /\ second_requests = [c \in Clients |-> <<>>]
    /\ rl_lock = NoThread
    /\ rl_pc = [t \in Threads |-> "idle"]
    /\ rl_client = [t \in Threads |-> None]
    /\ rl_now = [t \in Threads |-> 0]
    /\ rl_cut = [t \in Threads |-> [m |-> 0, s |-> 0]]
    /\ rl_ret = [client |-> None, allowed |-> TRUE, reason |-> None]
    /\ admitted = [c \in Clients |-> <<>>]

\* The X-API-Key headers and origin addresses requests come with (None: the
\* header, respectively the address, is not there), and the identities the
\* limiter then keeps windows for.
Headers == {None, "key-a"}
Addresses == {None, "10.0.0.1"}
Identities == {"key-a", "10.0.0.1", "unknown"}

\* Every request counted under one identity.
get_client_id_shared(header, remote_addr) == "unknown"

\* request.headers.get('X-API-Key', request.remote_addr or 'unknown')
get_client_id(header, remote_addr) ==
    IF header # None THEN header
    ELSE IF remote_addr # None THEN remote_addr
    ELSE "unknown"

\* RateLimiter() before any request, seen by requests of several identities
\* (a defaultdict: every identity starts with empty lists).
RlStart ==
    /\ clock = 0
    /\ minute_requests = [c \in Identities |-> <<>>]
    /\ second_requests = [c \in Identities |-> <<>>]
    /\ rl_lock = NoThread
    /\ rl_pc = [t \in Threads |-> "idle"]
    /\ rl_client = [t \in Threads |-> None]
    /\ rl_now = [t \in Threads |-> 0]
    /\ rl_cut = [t \in Threads |-> [m |-> 0, s |-> 0]]
    /\ rl_ret = [client |-> None, allowed |-> TRUE, reason |-> None, header |-> None,
                 remote_addr |-> None]
    /\ admitted = [c \in Identities |-> <<>>]

\* Time passes.
Tick ==
    /\ \E i \in Instants : i > clock /\ clock' = i
    /\ UNCHANGED <<minute_requests, second_requests, rl_lock, rl_pc, rl_client, rl_now,
                   rl_cut, rl_ret, admitted>>

LockIgnored == TRUE

\* "with self._lock" can be entered.
LockFree == rl_lock = NoThread

\* A request of client c enters is_allowed and gets the lock (a caller that
\* finds the lock held waits, changing nothing):
\* with self._lock: now = time.time(); client_id = self._get_client_id()
RL_Acquire(t, c) ==
    /\ rl_pc[t] = "idle"
    /\ LockFree
    /\ rl_lock' = t
    /\ rl_now' = [rl_now EXCEPT ![t] = clock]
    /\ rl_client' = [rl_client EXCEPT ![t] = c]
    /\ rl_pc' = [rl_pc EXCEPT ![t] = "purge_minute"]
    /\ UNCHANGED <<clock, minute_requests, second_requests, rl_cut, rl_ret, admitted>>

\* self.minute_requests[client_id] = self._cleanup_old(..., 60)
RL_PurgeMinute(t) ==
    /\ rl_pc[t] = "purge_minute"
    /\ minute_requests' = [minute_requests EXCEPT ![rl_client[t]] = cleanup_old(@, MinuteWindow)]
    /\ rl_cut' = [rl_cut EXCEPT ![t].m = clock]
    /\ rl_pc' = [rl_pc EXCEPT ![t] = "purge_second"]
    /\ UNCHANGED <<clock, second_requests, rl_lock, rl_client, rl_now, rl_ret, admitted>>

\* self.second_requests[client_id] = self._cleanup_old(..., 1)
RL_PurgeSecond(t) ==
    /\ rl_pc[t] = "purge_second"
    /\ second_requests' = [second_requests EXCEPT ![rl_client[t]] = cleanup_old(@, SecondWindow)]
    /\ rl_cut' = [rl_cut EXCEPT ![t].s = clock]
    /\ rl_pc' = [rl_pc EXCEPT ![t] = "check"]
    /\ UNCHANGED <<clock, minute_requests, rl_lock, rl_client, rl_now, rl_ret, admitted>>

\* The two limit tests; a rejection returns (and releases the lock) at once.
RL_Check(t) ==
    LET c == rl_client[t] IN
    /\ rl_pc[t] = "check"
    /\ IF Len(minute_requests[c]) >= requests_per_minute
       THEN /\ rl_ret' = [client |-> c, allowed |-> FALSE, reason |-> "rate limit exceeded (per minute)"]
            /\ rl_pc' = [rl_pc EXCEPT ![t] = "idle"]
            /\ rl_lock' = NoThread
            /\ rl_now' = [rl_now EXCEPT ![t] = 0]
            /\ rl_cut' = [rl_cut EXCEPT ![t] = [m |-> 0, s |-> 0]]
       ELSE IF Len(second_requests[c]) >= requests_per_second
       THEN /\ rl_ret' = [client |-> c, allowed |-> FALSE, reason |-> "rate limit exceeded (per second)"]
            /\ rl_pc' = [rl_pc EXCEPT ![t] = "idle"]
            /\ rl_lock' = NoThread
            /\ rl_now' = [rl_now EXCEPT ![t] = 0]
            /\ rl_cut' = [rl_cut EXCEPT ![t] = [m |-> 0, s |-> 0]]
       ELSE /\ rl_pc' = [rl_pc EXCEPT ![t] = "append"]
            /\ UNCHANGED <<rl_ret, rl_lock, rl_now, rl_cut>>
    /\ UNCHANGED <<clock, minute_requests, second_requests, rl_client, admitted>>

\* Both lists get "now"; return True, None.
RL_Append(t) ==
    LET c == rl_client[t] IN
    /\ rl_pc[t] = "append"
    /\ minute_requests' = [minute_requests EXCEPT ![c] = Append(@, rl_now[t])]
    /\ second_requests' = [second_requests EXCEPT ![c] = Append(@, rl_now[t])]
    /\ admitted' = [admitted EXCEPT ![c] = Append(@, rl_now[t])]
    /\ rl_ret' = [client |-> c, allowed |-> TRUE, reason |-> None]
    /\ rl_pc' = [rl_pc EXCEPT ![t] = "idle"]
    /\ rl_lock' = NoThread
    /\ rl_now' = [rl_now EXCEPT ![t] = 0]
    /\ rl_cut' = [rl_cut EXCEPT ![t] = [m |-> 0, s |-> 0]]
    /\ UNCHANGED <<clock, rl_client>>

(***************************************************************************)
(* ABTestManager (ml/ab_testing.py)                                        *)
(***************************************************************************)
TestNames == {"t1"}
RouteNames == TestNames \cup {"nonexistent-test"}
Subjects == {"p2", "p91", "p159"}
Versions == {"v1", "v2"}
Statuses == {"active", "paused", "completed"}
\* The strings PATCH /ab-tests/<test_id> passes on as data['status'].
StatusInputs == Statuses \cup {"archived"}

\* hash_value % 100: the number of routing buckets. traffic_split is held in
\* the same unit, hundredths: 17 stands for 0.17, HashBuckets for 1.0.
HashBuckets == 100

\* traffic_split values a caller passes; the first and the last are outside
\* [0.0, 1.0].
SplitInputs == {0 - 10, 0, 17, HashBuckets, HashBuckets + 50}

\* A digest that also depends on the process (as the built-in hash() does).
md5_low_salted(patient_id) ==
    CASE patient_id = "p2" -> 6317 + 41 * incarnation
      [] patient_id = "p91" -> 6600 + 41 * incarnation
      [] patient_id = "p159" -> 9599 + 41 * incarnation

\* int(hashlib.md5(patient_id.encode()).hexdigest(), 16), its four low
\* decimal digits.
md5_low(patient_id) ==
    CASE patient_id = "p2" -> 6317
      [] patient_id = "p91" -> 6600
      [] patient_id = "p159" -> 9599

\* A range test that lets every value through.
SplitUnchecked(traffic_split) == TRUE

\* ABTestConfig.__post_init__: the range test.
SplitInRange(traffic_split) == 0 <= traffic_split /\ traffic_split <= HashBuckets

\* The fields of ABTestConfig that routing and the lifecycle read; created_at,
\* end_at and description are time stamps and free text that nothing reads.
ABTestConfig(baseline_version, challenger_version, traffic_split) ==
    [baseline_version |-> baseline_version, challenger_version |-> challenger_version,
     traffic_split |-> traffic_split, status |-> "active"]

\* route_request that hashes whatever the test's status is.
route_request_any_status(patient_id, test_name) ==
    IF test_name \notin DOMAIN tests
    THEN <<"default", "baseline">>
    ELSE IF md5_low(patient_id) % HashBuckets < tests[test_name].traffic_split
         THEN <<tests[test_name].challenger_version, "challenger">>
         ELSE <<tests[test_name].baseline_version, "baseline">>

\* route_request with "bucket <= traffic_split".
route_request_inclusive(patient_id, test_name) ==
    IF test_name \notin DOMAIN tests
    THEN <<"default", "baseline">>
    ELSE IF tests[test_name].status # "active"
    THEN <<tests[test_name].baseline_version, "baseline">>
    ELSE IF md5_low(patient_id) % HashBuckets <= tests[test_name].traffic_split
         THEN <<tests[test_name].challenger_version, "challenger">>
         ELSE <<tests[test_name].baseline_version, "baseline">>

\* ABTestManager.route_request(patient_id, test_name) -> (model_version, arm)
route_request(patient_id, test_name) ==
    IF test_name \notin DOMAIN tests
    THEN <<"default", "baseline">>
    ELSE IF tests[test_name].status # "active"
    THEN <<tests[test_name].baseline_version, "baseline">>
    ELSE IF md5_low(patient_id) % HashBuckets < tests[test_name].traffic_split
         THEN <<tests[test_name].challenger_version, "challenger">>
         ELSE <<tests[test_name].baseline_version, "baseline">>

\* What a write to a store file can do: succeed, fail before the file is
\* touched (open raises), or fail after the file was truncated.
IoOutcomesAt(budget) == IF budget > 0 THEN {"ok", "open_fails", "truncated"} ELSE {"ok"}
IoOutcomes == IoOutcomesAt(io_budget)

\* _save_tests / _save_predictions: the file after the call; the exception
\* is logged and swallowed.
SaveFile(file, data, io) ==
    CASE io = "ok" -> [state |-> "ok", data |-> data]
      [] io = "open_fails" -> file
      [] io = "truncated" -> [state |-> "corrupt", data |-> <<>>]

\* _load_tests / _load_predictions: a missing or unreadable file leaves the
\* manager empty.
LoadFile(file) == IF file.state = "ok" THEN file.data ELSE <<>>

\* [asdict(t) for t in self._tests.values()]: the JSON list written to
\* ab_tests.json, one object per test with its name among the fields.
RECURSIVE asdict_tests(_)
asdict_tests(ts) ==
    IF DOMAIN ts = {} THEN <<>>
    ELSE LET n == CHOOSE x \in DOMAIN ts : TRUE
             rest == [x \in DOMAIN ts \ {n} |-> ts[x]]
         IN  <<[test_name |-> n, baseline_version |-> ts[n].baseline_version,
                challenger_version |-> ts[n].challenger_version,
                traffic_split |-> ts[n].traffic_split, status |-> ts[n].status]>>
             \o asdict_tests(rest)

\* _load_tests: each object of the list becomes ABTestConfig(**test_data),
\* stored under its test_name; __post_init__ raising ends the loop, keeping
\* what was read before it.
RECURSIVE load_list(_, _)
load_list(data, acc) ==
    IF data = <<>> THEN acc
    ELSE LET r == Head(data) IN
         IF ~SplitInRange(r.traffic_split) THEN acc
         ELSE load_list(Tail(data),
                        [n \in DOMAIN acc \cup {r.test_name} |->
                            IF n = r.test_name
                            THEN [baseline_version |-> r.baseline_version,
                                  challenger_version |-> r.challenger_version,
                                  traffic_split |-> r.traffic_split, status |-> r.status]
                            ELSE acc[n]])

load_tests(file) == load_list(LoadFile(file), <<>>)

AbStart(budget) ==
    /\ tests = <<>>
    /\ tests_file = [state |-> "missing", data |-> <<>>]
    /\ predictions = <<>>
    /\ predictions_file = [state |-> "missing", data |-> <<>>]
    /\ incarnation = 0
    /\ io_budget = budget
    /\ ab_ret = [op |-> "none"]
    /\ ab_pin = [set |-> FALSE]

AbInit ==
    /\ tests = <<>>
    /\ tests_file = [state |-> "missing", data |-> <<>>]
    /\ predictions = <<>>
    /\ predictions_file = [state |-> "missing", data |-> <<>>]
    /\ incarnation = 0
    /\ io_budget = 0
    /\ ab_ret = [op |-> "none"]
    /\ ab_pin = [set |-> FALSE]

Left(budget, io) == IF io = "ok" THEN budget ELSE budget - 1
Spend(io) == io_budget' = Left(io_budget, io)

\* create_test(test_name, baseline_version, challenger_version, traffic_split)
CreateTest(test_name, baseline_version, challenger_version, traffic_split) ==
    IF test_name \in DOMAIN tests \/ ~SplitInRange(traffic_split)
    THEN /\ ab_ret' = [op |-> "create_test", test |-> test_name, split |-> traffic_split,
                        raised |-> "ValueError"]
         /\ UNCHANGED <<tests, tests_file, predictions, predictions_file, incarnation,
                        io_budget, ab_pin>>
    ELSE \E io \in IoOutcomes :
         /\ tests' = [n \in DOMAIN tests \cup {test_name} |->
                        IF n = test_name
                        THEN ABTestConfig(baseline_version, challenger_version, traffic_split)
                        ELSE tests[n]]
         /\ tests_file' = SaveFile(tests_file, asdict_tests(tests'), io)
         /\ Spend(io)
         /\ ab_ret' = [op |-> "create_test", test |-> test_name, split |-> traffic_split,
                        raised |-> None]
         /\ UNCHANGED <<predictions, predictions_file, incarnation, ab_pin>>

\* update_test_status(test_name, status)
UpdateTestStatus(test_name, status) ==
    IF test_name \notin DOMAIN tests
    THEN /\ ab_ret' = [op |-> "update_test_status", test |-> test_name, value |-> FALSE]
         /\ UNCHANGED <<tests, tests_file, predictions, predictions_file, incarnation,
                        io_budget, ab_pin>>
    ELSE \E io \in IoOutcomes :
         /\ tests' = [tests EXCEPT ![test_name].status = status]
         /\ tests_file' = SaveFile(tests_file, asdict_tests(tests'), io)
         /\ Spend(io)
         /\ ab_ret' = [op |-> "update_test_status", test |-> test_name, value |-> TRUE]
         /\ UNCHANGED <<predictions, predictions_file, incarnation, ab_pin>>

\* [p for p in self._predictions if p.test_name != test_name]
RECURSIVE OtherTests(_, _)
OtherTests(records, test_name) ==
    IF records = <<>> THEN <<>>
    ELSE IF Head(records).test_name # test_name
         THEN <<Head(records)>> \o OtherTests(Tail(records), test_name)
         ELSE OtherTests(Tail(records), test_name)

\* delete_test(test_name, delete_predictions)
DeleteTest(test_name, delete_predictions) ==
    IF test_name \notin DOMAIN tests
    THEN /\ ab_ret' = [op |-> "delete_test", test |-> test_name, value |-> FALSE]
         /\ UNCHANGED <<tests, tests_file, predictions, predictions_file, incarnation,
                        io_budget, ab_pin>>
    ELSE \E io \in IoOutcomes :
         /\ tests' = [n \in DOMAIN tests \ {test_name} |-> tests[n]]
         /\ tests_file' = SaveFile(tests_file, asdict_tests(tests'), io)
         /\ IF delete_predictions
            THEN /\ predictions' = OtherTests(predictions, test_name)
                 /\ \E io2 \in IoOutcomesAt(Left(io_budget, io)) :
                       /\ predictions_file' = SaveFile(predictions_file, predictions', io2)
                       /\ io_budget' = Left(Left(io_budget, io), io2)
            ELSE /\ UNCHANGED <<predictions, predictions_file>>
                 /\ Spend(io)
         /\ ab_ret' = [op |-> "delete_test", test |-> test_name, value |-> TRUE]
         /\ UNCHANGED <<incarnation, ab_pin>>

\* route_request(patient_id, test_name). The call changes nothing in the
\* manager; ab_pin may keep this call (against an active test) for comparison
\* with later ones.
RouteRequest(patient_id, test_name) ==
    LET result == route_request(patient_id, test_name) IN
    /\ ab_ret' = [op |-> "route_request", subject |-> patient_id, test |-> test_name,
                   result |-> result]
    /\ \/ UNCHANGED ab_pin
       \/ /\ ~ab_pin.set
          /\ test_name \in DOMAIN tests
          /\ tests[test_name].status = "active"
          /\ ab_pin' = [set |-> TRUE, subject |-> patient_id, test |-> test_name,
                        config |-> tests[test_name], result |-> result]
    /\ UNCHANGED <<tests, tests_file, predictions, predictions_file, incarnation, io_budget>>

\* hashlib.sha256(patient_id.encode()).hexdigest()[:16]
patient_hash(patient_id) ==
    CASE patient_id = "p2" -> "3946ca64ff78d93c"
      [] patient_id = "p91" -> "9a0641c011f6b248"
      [] patient_id = "p159" -> "73fab8555f78e85e"

\* The store is rewritten on every FlushEvery-th record.
FlushEvery == 10

\* How many records the in-memory log holds at most.
MaxLog == 1

\* The class every recorded prediction names: prediction["prediction"].
PredictedClass == "Diabetic"

PredictionRecord(test_name, model_version, patient_id) ==
    [test_name |-> test_name, model_version |-> model_version,
     patient_hash |-> patient_hash(patient_id), prediction |-> PredictedClass,
     actual_outcome |-> None]

\* record_prediction(test_name, model_version, patient_id, features, prediction);
\* features are carried along unread and are left out.
\* A flush test that comes due one append later.
FlushDueLate(n) == n % (FlushEvery + 1) = 0

\* if len(self._predictions) % 10 == 0
FlushDue(n) == n % FlushEvery = 0

RecordPrediction(test_name, model_version, patient_id) ==
    /\ predictions' = Append(predictions, PredictionRecord(test_name, model_version, patient_id))
    /\ IF FlushDue(Len(predictions'))
       THEN \E io \in IoOutcomes :
              /\ predictions_file' = SaveFile(predictions_file, predictions', io)
              /\ Spend(io)
       ELSE UNCHANGED <<predictions_file, io_budget>>
    /\ ab_ret' = [op |-> "record_prediction"]
    /\ UNCHANGED <<tests, tests_file, incarnation, ab_pin>>

Outcomes == {"Diabetic", "Normal"}

\* A match that takes a record whatever its outcome.
MatchesSubject(r, h) == r.patient_hash = h

\* pred.patient_hash == patient_hash and pred.actual_outcome is None
Unresolved(r, h) == r.patient_hash = h /\ r.actual_outcome = None

\* record_outcome(patient_id, actual_outcome) -> number of records updated
RecordOutcome(patient_id, actual_outcome) ==
    LET hit(r) == Unresolved(r, patient_hash(patient_id))
        updated == Cardinality({i \in 1..Len(predictions) : hit(predictions[i])})
    IN  /\ predictions' = [i \in 1..Len(predictions) |->
                              IF hit(predictions[i])
                              THEN [predictions[i] EXCEPT !.actual_outcome = actual_outcome]
                              ELSE predictions[i]]
        /\ IF updated > 0
           THEN \E io \in IoOutcomes :
                  /\ predictions_file' = SaveFile(predictions_file, predictions', io)
                  /\ Spend(io)
           ELSE UNCHANGED <<predictions_file, io_budget>>
        /\ ab_ret' = [op |-> "record_outcome", subject |-> patient_id,
                       outcome |-> actual_outcome, value |-> updated]
        /\ UNCHANGED <<tests, tests_file, incarnation, ab_pin>>

\* How many restarts a run holds.
MaxRestarts == 1

\* The process ends and a new one constructs ABTestManager(): __init__ loads
\* both stores.
Restart ==
    /\ incarnation < MaxRestarts
    /\ incarnation' = incarnation + 1
    /\ tests' = load_tests(tests_file)
    /\ predictions' = LoadFile(predictions_file)
    /\ ab_ret' = [op |-> "none"]
    /\ UNCHANGED <<tests_file, predictions_file, io_budget, ab_pin>>

\* analyze_predictions(preds): the counts it reports; accuracy is
\* correct / validated_count and is reported only when some record bears an
\* outcome. The probability statistics are left out.
analyze_predictions(preds) ==
    IF preds = <<>> THEN [count |-> 0]
    ELSE LET with_outcomes == SelectSeq(preds, LAMBDA r : r.actual_outcome # None)
             correct == SelectSeq(with_outcomes, LAMBDA r : r.prediction = r.actual_outcome)
         IN  IF with_outcomes = <<>>
             THEN [count |-> Len(preds)]
             ELSE [count |-> Len(preds), validated_count |-> Len(with_outcomes),
                   correct |-> Len(correct)]

\* get_comparison(test_name)
GetComparison(test_name) ==
    /\ IF test_name \notin DOMAIN tests
       THEN ab_ret' = [op |-> "get_comparison", test |-> test_name, error |-> TRUE]
       ELSE LET test == tests[test_name]
                test_predictions == SelectSeq(predictions, LAMBDA r : r.test_name = test_name)
                baseline_preds ==
                    SelectSeq(test_predictions,
                              LAMBDA r : r.model_version = test.baseline_version)
                challenger_preds ==
                    SelectSeq(test_predictions,
                              LAMBDA r : r.model_version = test.challenger_version)
            IN  ab_ret' = [op |-> "get_comparison", test |-> test_name, error |-> FALSE,
                           baseline |-> analyze_predictions(baseline_preds),
                           challenger |-> analyze_predictions(challenger_preds),
                           total_predictions |-> Len(test_predictions)]
    /\ UNCHANGED <<tests, tests_file, predictions, predictions_file, incarnation, io_budget,
                   ab_pin>>

(***************************************************************************)
(* record_prediction under concurrent callers (ml/ab_testing.py)           *)
(***************************************************************************)
LogInit == rp_pc = [t \in Threads |-> "idle"]

\* self._predictions.append(record)
RP_Append(t, test_name, model_version, patient_id) ==
    /\ rp_pc[t] = "idle"
    /\ predictions' = Append(predictions, PredictionRecord(test_name, model_version, patient_id))
    /\ rp_pc' = [rp_pc EXCEPT ![t] = "check"]
    /\ UNCHANGED <<tests, tests_file, predictions_file, incarnation, io_budget, ab_ret, ab_pin>>

\* if len(self._predictions) % 10 == 0: the length is read now, whoever
\* appended in between.
RP_Check(t) ==
    /\ rp_pc[t] = "check"
    /\ IF FlushDue(Len(predictions))
       THEN /\ rp_pc' = [rp_pc EXCEPT ![t] = "open"]
            /\ UNCHANGED ab_ret
       ELSE /\ rp_pc' = [rp_pc EXCEPT ![t] = "idle"]
            /\ ab_ret' = [op |-> "record_prediction"]
    /\ UNCHANGED <<tests, tests_file, predictions, predictions_file, incarnation, io_budget,
                   ab_pin>>

\* _save_predictions: open(self.predictions_path, 'w') truncates the file.
RP_Open(t) ==
    /\ rp_pc[t] = "open"
    /\ predictions_file' = [state |-> "corrupt", data |-> <<>>]
    /\ rp_pc' = [rp_pc EXCEPT ![t] = "dump"]
    /\ UNCHANGED <<tests, tests_file, predictions, incarnation, io_budget, ab_ret, ab_pin>>

\* json.dump([asdict(p) for p in self._predictions], f) and the file is
\* closed. While another thread has the file open for writing too, what the
\* file ends up holding is either the list or bytes that do not parse.
RP_Dump(t) ==
    /\ rp_pc[t] = "dump"
    /\ \/ predictions_file' = [state |-> "ok", data |-> predictions]
       \/ /\ \E u \in Threads \ {t} : rp_pc[u] = "dump"
          /\ predictions_file' = [state |-> "corrupt", data |-> <<>>]
    /\ rp_pc' = [rp_pc EXCEPT ![t] = "idle"]
    /\ ab_ret' = [op |-> "record_prediction"]
    /\ UNCHANGED <<tests, tests_file, predictions, incarnation, io_budget, ab_pin>>

(***************************************************************************)
(* DriftMonitor (ml/drift_detection.py)                                    *)
(***************************************************************************)
\* The features requests speak of.
Features == {"bmi", "age"}

\* The reference sets a caller may install: which features each holds. The
\* values are left out; the id tells one set from another.
References ==
    {[id |-> "ref-1", features |-> {"bmi", "age"}],
     [id |-> "ref-2", features |-> {"bmi", "age"}],
     [id |-> "ref-3", features |-> {"bmi"}]}

\* No reference_data.json and no alerts.json: the monitor starts empty.
DmInit ==
    /\ reference_data = [id |-> "none", features |-> {}]
    /\ reference_file = [state |-> "missing", data |-> <<>>]
    /\ dm_pc = [t \in Threads |-> "idle"]
    /\ dm_todo = [t \in Threads |-> <<>>]
    /\ dm_seen = [t \in Threads |-> <<>>]
    /\ dm_ret = [op |-> "none"]
    /\ alerts = <<>>
    /\ alerts_file = [state |-> "missing", data |-> <<>>]

\* set_reference(data): the new dict is built, then assigned in one store,
\* then written to reference_data.json.
SetReference(r) ==
    /\ reference_data' = r
    /\ reference_file' = SaveFile(reference_file, r, "ok")
    /\ dm_ret' = [op |-> "set_reference"]
    /\ UNCHANGED <<dm_pc, dm_todo, dm_seen, alerts, alerts_file>>

\* check_feature_drift(current_data) is entered: the loop has every feature
\* of current_data before it.
DM_Begin(t, current_data) ==
    /\ dm_pc[t] = "idle"
    /\ dm_pc' = [dm_pc EXCEPT ![t] = "test"]
    /\ dm_todo' = [dm_todo EXCEPT ![t] = current_data]
    /\ dm_seen' = [dm_seen EXCEPT ![t] = <<>>]
    /\ UNCHANGED <<reference_data, reference_file, dm_ret, alerts, alerts_file>>

\* if feature not in self.reference_data: continue   (or the loop is over
\* and the report is returned)
DM_Test(t) ==
    /\ dm_pc[t] = "test"
    /\ IF dm_todo[t] = <<>>
       THEN /\ dm_pc' = [dm_pc EXCEPT ![t] = "idle"]
            /\ dm_ret' = [op |-> "check_feature_drift", raised |-> None, seen |-> dm_seen[t]]
            /\ UNCHANGED dm_todo
       ELSE IF Head(dm_todo[t]) \notin reference_data.features
       THEN /\ dm_todo' = [dm_todo EXCEPT ![t] = Tail(@)]
            /\ UNCHANGED <<dm_pc, dm_ret>>
       ELSE /\ dm_pc' = [dm_pc EXCEPT ![t] = "read"]
            /\ UNCHANGED <<dm_todo, dm_ret>>
    /\ UNCHANGED <<reference_data, reference_file, dm_seen, alerts, alerts_file>>

\* reference_values = self.reference_data[feature]: the attribute is read
\* again; the rest of the iteration works on the values it got.
DM_Read(t) ==
    LET feature == Head(dm_todo[t]) IN
    /\ dm_pc[t] = "read"
    /\ IF feature \notin reference_data.features
       THEN /\ dm_pc' = [dm_pc EXCEPT ![t] = "idle"]
            /\ dm_ret' = [op |-> "check_feature_drift", raised |-> "KeyError",
                           seen |-> dm_seen[t]]
            /\ UNCHANGED <<dm_todo, dm_seen>>
       ELSE /\ dm_seen' = [dm_seen EXCEPT ![t] =
                              [f \in DOMAIN @ \cup {feature} |->
                                  IF f = feature THEN reference_data.id ELSE @[f]]]
            /\ dm_todo' = [dm_todo EXCEPT ![t] = Tail(@)]
            /\ dm_pc' = [dm_pc EXCEPT ![t] = "test"]
            /\ UNCHANGED dm_ret
    /\ UNCHANGED <<reference_data, reference_file, alerts, alerts_file>>

\* PSI_LOW = 0.1, PSI_MEDIUM = 0.2, PSI_HIGH = 0.25 and KS_ALPHA = 0.05, in
\* thousandths.
PSI_LOW == 100
PSI_MEDIUM == 200
PSI_HIGH == 250
KS_ALPHA == 50

\* What calculate_psi and ks_test measured for a feature of the batch against
\* the reference values: the statistics themselves are floating-point sums
\* and are taken as given, on and next to every threshold.
PsiValues == {0, PSI_LOW - 1, PSI_LOW, PSI_MEDIUM - 1, PSI_MEDIUM, PSI_HIGH - 1, PSI_HIGH}
PValues == {KS_ALPHA - 1, KS_ALPHA}
Measured == [feature : Features, psi : PsiValues, ks_pvalue : PValues]

\* current_data, in the order its items are iterated: no feature twice.
Batches ==
    {<<>>} \cup {<<m>> : m \in Measured}
           \cup {<<p[1], p[2]>> : p \in {q \in Measured \X Measured : q[1].feature # q[2].feature}}

\* severity_order = {"none": 0, "low": 1, "medium": 2, "high": 3}
severity_order == [none |-> 0, low |-> 1, medium |-> 2, high |-> 3]

\* Thresholds one step too high.
severity_of_late(psi) ==
    IF psi > PSI_HIGH THEN "high"
    ELSE IF psi > PSI_MEDIUM THEN "medium"
    ELSE IF psi > PSI_LOW THEN "low"
    ELSE "none"

\* if psi >= PSI_HIGH ... elif psi >= PSI_MEDIUM ... elif psi >= PSI_LOW ... else
severity_of(psi) ==
    IF psi >= PSI_HIGH THEN "high"
    ELSE IF psi >= PSI_MEDIUM THEN "medium"
    ELSE IF psi >= PSI_LOW THEN "low"
    ELSE "none"

\* Drift judged by PSI alone.
has_significant_drift_psi_only(psi, ks_pvalue) == psi >= PSI_LOW

\* has_significant_drift = psi >= self.PSI_LOW or ks_pvalue < self.KS_ALPHA
has_significant_drift(psi, ks_pvalue) == psi >= PSI_LOW \/ ks_pvalue < KS_ALPHA

\* DriftReport(): the report before the loop. Its timestamp is the time of
\* the call and is left out.
DriftReport == [has_drift |-> FALSE, severity |-> "none", feature_drifts |-> [f \in {} |-> None]]

\* The loop of check_feature_drift over a reference that does not change
\* meanwhile: a feature the reference lacks is skipped, every other gets its
\* entry in feature_drifts and, when drifted, marks the report.
RECURSIVE feature_loop(_, _, _)
feature_loop(reference, todo, report) ==
    IF todo = <<>> THEN report
    ELSE LET cur == Head(todo) IN
         IF cur.feature \notin reference.features
         THEN feature_loop(reference, Tail(todo), report)
         ELSE LET severity == severity_of(cur.psi)
                  drifted == has_significant_drift(cur.psi, cur.ks_pvalue)
                  entry == [psi |-> cur.psi, ks_pvalue |-> cur.ks_pvalue,
                            severity |-> severity, drifted |-> drifted]
              IN feature_loop(reference, Tail(todo),
                   [has_drift |-> report.has_drift \/ drifted,
                    severity |-> IF drifted /\ severity_order[severity] >
                                               severity_order[report.severity]
                                 THEN severity ELSE report.severity,
                    feature_drifts |->
                        [f \in DOMAIN report.feature_drifts \cup {cur.feature} |->
                            IF f = cur.feature THEN entry ELSE report.feature_drifts[f]]])

\* check_feature_drift(current_data) by a single caller.
CheckFeatureDrift(current_data) ==
    /\ dm_ret' = [op |-> "check_feature_drift", raised |-> None,
                   seen |-> [i \in {} |-> None],
                   reference |-> reference_data.id, current |-> current_data,
                   report |-> feature_loop(reference_data, current_data, DriftReport)]
    /\ UNCHANGED <<reference_data, reference_file, dm_pc, dm_todo, dm_seen, alerts, alerts_file>>

\* _load_reference: a missing or unreadable reference_data.json leaves
\* reference_data = {}.
load_reference(file) ==
    IF file.state = "ok" THEN file.data ELSE [id |-> "none", features |-> {}]

\* What reference_data.json may hold when a monitor is constructed.
ReferenceFiles ==
    {[state |-> "missing", data |-> <<>>], [state |-> "corrupt", data |-> <<>>]}
    \cup {[state |-> "ok", data |-> r] : r \in References}

\* DriftMonitor() over a given reference_data.json, no alerts stored.
DmStart(file) ==
    /\ reference_file = file
    /\ reference_data = load_reference(file)
    /\ dm_pc = [t \in Threads |-> "idle"]
    /\ dm_todo = [t \in Threads |-> <<>>]
    /\ dm_seen = [t \in Threads |-> <<>>]
    /\ dm_ret = [op |-> "none"]
    /\ alerts = <<>>
    /\ alerts_file = [state |-> "missing", data |-> <<>>]

\* The reports create_alert is handed: DriftReport.has_drift and .severity.
Severities == {"none", "high"}
Reports == [has_drift : BOOLEAN, severity : Severities]

\* How many alerts the list holds at most.
MaxAlerts == 2

\* A test for "no drift" that never holds.
NoDriftNever(report) == FALSE

\* if not report.has_drift: return None
NoDrift(report) == ~report.has_drift

\* create_alert(report); the alert's timestamp is datetime.now().
CreateAlert(report) ==
    IF NoDrift(report)
    THEN /\ dm_ret' = [op |-> "create_alert", has_drift |-> report.has_drift,
                        returned |-> None]
         /\ UNCHANGED <<reference_data, reference_file, dm_pc, dm_todo, dm_seen, alerts,
                        alerts_file>>
    ELSE /\ Len(alerts) < MaxAlerts
         /\ alerts' = Append(alerts, [timestamp |-> clock, severity |-> report.severity,
                                      acknowledged |-> FALSE])
         /\ alerts_file' = SaveFile(alerts_file, alerts', "ok")
         /\ dm_ret' = [op |-> "create_alert", has_drift |-> report.has_drift,
                        returned |-> "Alert"]
         /\ UNCHANGED <<reference_data, reference_file, dm_pc, dm_todo, dm_seen>>

\* The first alert of the list that bears the timestamp, or 0.
FirstAt(timestamp) ==
    LET at == {i \in 1..Len(alerts) : alerts[i].timestamp = timestamp} IN
    IF at = {} THEN 0 ELSE CHOOSE i \in at : \A j \in at : i <= j

\* acknowledge_alert(timestamp)
AcknowledgeAlert(timestamp) ==
    LET i == FirstAt(timestamp) IN
    /\ IF i = 0
       THEN UNCHANGED <<alerts, alerts_file>>
       ELSE /\ alerts' = [alerts EXCEPT ![i].acknowledged = TRUE]
            /\ alerts_file' = SaveFile(alerts_file, alerts', "ok")
    /\ dm_ret' = [op |-> "acknowledge_alert", timestamp |-> timestamp, value |-> i # 0]
    /\ UNCHANGED <<reference_data, reference_file, dm_pc, dm_todo, dm_seen>>

(***************************************************************************)
(* POST /predict (ml/server.py)                                            *)
(***************************************************************************)
\* ML_API_KEY as configured, and the X-API-Key headers requests carry.
API_KEY == "key-a"
Keys == {API_KEY, "key-x"}

\* The JSON bodies requests carry: none or {}, every feature present and in
\* range (inside, or on the edges), a required feature absent, a feature
\* null, a feature below or above its range, a feature given as text, and a
\* feature out of range next to one given as text.
Bodies == {"empty", "complete", "on_edges", "field_missing", "field_none", "below_range",
           "above_range", "field_text", "out_of_range_and_text"}

\* The values a body gives a feature.
NoValue == [kind |-> "absent", n |-> 0]
NoneValue == [kind |-> "none", n |-> 0]
TextValue == [kind |-> "text", n |-> 0]
Num(n) == [kind |-> "number", n |-> n]

\* Two of REQUIRED_FEATURES, and their entries in validate_input's ranges;
\* the other features are handled by the same lines.
REQUIRED_FEATURES == {"hba1c", "bmi"}
ranges == [hba1c |-> [min_val |-> 2, max_val |-> 20], bmi |-> [min_val |-> 10, max_val |-> 80]]

\* What each body says about the features.
body_data(body) ==
    CASE body = "complete" -> [hba1c |-> Num(6), bmi |-> Num(30)]
      [] body = "on_edges" -> [hba1c |-> Num(20), bmi |-> Num(10)]
      [] body = "field_missing" -> [hba1c |-> Num(6), bmi |-> NoValue]
      [] body = "field_none" -> [hba1c |-> NoneValue, bmi |-> Num(30)]
      [] body = "below_range" -> [hba1c |-> Num(6), bmi |-> Num(9)]
      [] body = "above_range" -> [hba1c |-> Num(21), bmi |-> Num(30)]
      [] body = "field_text" -> [hba1c |-> Num(6), bmi |-> TextValue]
      [] body = "out_of_range_and_text" -> [hba1c |-> Num(25), bmi |-> TextValue]
      [] OTHER -> [hba1c |-> NoValue, bmi |-> NoValue]

\* patient_data = {"hba1c": data.get("hba1c"), ...}: an absent key becomes None.
patient_data(body) ==
    [f \in REQUIRED_FEATURES |-> IF body_data(body)[f].kind = "absent" THEN NoneValue
                                 ELSE body_data(body)[f]]

\* validate_input(data): the missing list first; then every value is
\* compared with its range, which raises TypeError on text.
validate_input(data) ==
    IF \E f \in REQUIRED_FEATURES : data[f].kind \in {"absent", "none"}
    THEN [raised |-> None, valid |-> FALSE]
    ELSE IF \E f \in REQUIRED_FEATURES : data[f].kind = "text"
    THEN [raised |-> "TypeError", valid |-> FALSE]
    ELSE IF \E f \in REQUIRED_FEATURES :
              data[f].n < ranges[f].min_val \/ data[f].n > ranges[f].max_val
    THEN [raised |-> None, valid |-> FALSE]
    ELSE [raised |-> None, valid |-> TRUE]

\* predict(data): a failure result when validate_input says so, else the
\* scaler, the clustering model and the classifier are run.
predict(data) ==
    LET checked == validate_input(data) IN
    IF checked.raised # None
    THEN [raised |-> checked.raised, success |-> FALSE, invoked |-> {}]
    ELSE IF ~checked.valid
    THEN [raised |-> None, success |-> FALSE, invoked |-> {}]
    ELSE [raised |-> None, success |-> TRUE, invoked |-> {"scaler", "kmeans", "classifier"}]

\* The test a request names, if any.
NamedTests == TestNames \cup {None}

\* predictor.predict(patient_data) on a constructed predictor.
predictor_predict(body) == predict(patient_data(body))

\* A rejection that records the attempt.
rejected_recorded(requests_list) == Append(requests_list, clock)

\* return False, ...: the purged list stays as it is.
rejected(requests_list) == requests_list

\* RateLimiter.is_allowed() run to its end, as a request thread running alone
\* does: the two lists after the purge and the verdict.
is_allowed(c) ==
    LET m == cleanup_old(minute_requests[c], MinuteWindow)
        s == cleanup_old(second_requests[c], SecondWindow)
    IN  IF Len(m) >= requests_per_minute
        THEN [minute |-> rejected(m), second |-> rejected(s), allowed |-> FALSE,
              reason |-> "rate limit exceeded (per minute)"]
        ELSE IF Len(s) >= requests_per_second
        THEN [minute |-> rejected(m), second |-> rejected(s), allowed |-> FALSE,
              reason |-> "rate limit exceeded (per second)"]
        ELSE [minute |-> Append(m, clock), second |-> Append(s, clock), allowed |-> TRUE,
              reason |-> None]

\* get_predictor() / get_clinical_predictor() run to its end by a thread
\* running alone: the slot afterwards, and what the caller gets.
get_predictor(m) ==
    IF slots[m] # NoObj
    THEN [slot |-> slots[m], raised |-> None, init |-> None]
    ELSE LET raised == Construct(m) IN
         IF raised = None THEN [slot |-> <<m, 1>>, raised |-> None, init |-> None]
         ELSE IF m = "clinical" /\ raised = "FileNotFoundError"
         THEN [slot |-> NoObj, raised |-> None, init |-> raised]
         ELSE [slot |-> NoObj, raised |-> raised, init |-> raised]

\* rate_limiter.is_allowed() for a request with the given header and origin
\* address, run to its end under the lock.
Throttle(header, remote_addr) ==
    LET client_id == get_client_id(header, remote_addr)
        lim == is_allowed(client_id)
    IN  /\ minute_requests' = [minute_requests EXCEPT ![client_id] = lim.minute]
        /\ second_requests' = [second_requests EXCEPT ![client_id] = lim.second]
        /\ admitted' = [admitted EXCEPT ![client_id] =
                           IF lim.allowed THEN Append(@, clock) ELSE @]
        /\ rl_ret' = [client |-> client_id, allowed |-> lim.allowed, reason |-> lim.reason,
                       header |-> header, remote_addr |-> remote_addr]
        /\ UNCHANGED <<clock, rl_lock, rl_pc, rl_client, rl_now, rl_cut>>

\* get_ab_manager keeps _manager, get_drift_monitor keeps _monitor.
Kinds == {"ab_manager", "drift_monitor"}

\* A request thread enters get_ab_manager / get_drift_monitor:
\* if _manager is None
SG_Test(t, kind) ==
    /\ sg_call[t].pc = "idle"
    /\ sg_call' = [sg_call EXCEPT ![t] =
                      IF instance[kind] = 0
                      THEN [pc |-> "construct", kind |-> kind, obj |-> 0, got |-> 0]
                      ELSE [pc |-> "return", kind |-> kind, obj |-> 0, got |-> 0]]
    /\ UNCHANGED <<response, instance, sg_made>>

\* ABTestManager() / DriftMonitor(): a new object, loaded from the files.
SG_Construct(t) ==
    LET kind == sg_call[t].kind IN
    /\ sg_call[t].pc = "construct"
    /\ sg_made' = [sg_made EXCEPT ![kind] = @ + 1]
    /\ sg_call' = [sg_call EXCEPT ![t].pc = "assign", ![t].obj = sg_made[kind] + 1]
    /\ UNCHANGED <<response, instance>>

\* _manager = <the new object>
SG_Assign(t) ==
    /\ sg_call[t].pc = "assign"
    /\ instance' = [instance EXCEPT ![sg_call[t].kind] = sg_call[t].obj]
    /\ sg_call' = [sg_call EXCEPT ![t].pc = "return"]
    /\ UNCHANGED <<response, sg_made>>

\* return _manager: the global is read again.
SG_Return(t) ==
    /\ sg_call[t].pc = "return"
    /\ sg_call' = [sg_call EXCEPT ![t].pc = "idle", ![t].got = instance[sg_call[t].kind]]
    /\ UNCHANGED <<response, instance, sg_made>>

SrvInit ==
    /\ response = [op |-> "none"]
    /\ instance = [k \in Kinds |-> 0]
    /\ sg_made = [k \in Kinds |-> 0]
    /\ sg_call = [t \in Threads |-> [pc |-> "idle", kind |-> None, obj |-> 0, got |-> 0]]

\* A limiter verdict that never counts as a denial.
DeniedNever(lim) == FALSE

\* allowed, reason = rate_limiter.is_allowed(); if not allowed: ... 429
Denied(lim) == ~lim.allowed

\* The ADA constructor got as far as its own raise
\* FileNotFoundError("No classifier model found").
NoClassifierFound ==
    /\ safe_load_model(<<"models", "scaler.joblib">>).raised = None
    /\ ~Exists(<<"models", "random_forest.joblib">>)
    /\ ~Exists(<<"models", "best_model.joblib">>)

\* str(e) for the exception the handler's "except Exception as e" caught:
\* safe_load_model's SecurityError and the FileNotFoundError of open() and
\* joblib.load carry the path of the artifact.
str_e(model_type, raised) ==
    IF raised = "SecurityError" THEN "Model integrity verification failed: <filepath>"
    ELSE IF raised = "FileNotFoundError"
    THEN IF model_type = "ada" /\ NoClassifierFound THEN "No classifier model found"
         ELSE "[Errno 2] No such file or directory: '<filepath>'"
    ELSE "'<' not supported between instances of 'str' and 'int'"

\* One request to POST /predict?model_type=..., from the decorators to the
\* response: require_api_key, rate_limit, predict(). test_name is the A/B
\* test the request names; no line of the handler reads it. The response
\* remembers the body predictor.predict was called on, if it was called, and
\* what predict ran.
Serve(key, model_type, body, test_name) ==
    LET lim == is_allowed(key)
        got == get_predictor(model_type)
        result == predictor_predict(body)
        named_active == test_name \in DOMAIN tests /\ tests[test_name].status = "active"
        Reply(status, init, predicted, error) ==
            /\ response' = [op |-> "predict", model_type |-> model_type, test_name |-> test_name,
                         named_active |-> named_active, init |-> init, status |-> status,
                         predicted_on |-> IF predicted THEN body ELSE None,
                         invoked |-> IF predicted THEN result.invoked ELSE {},
                         error |-> error]
            /\ UNCHANGED <<instance, sg_made, sg_call>>
        Answer(status, init, error) == Reply(status, init, FALSE, error)
    IN  IF key # API_KEY
        THEN /\ Answer(401, None, "Invalid or missing API key")
             /\ UNCHANGED <<fsVars, pmVars, rlVars, abVars>>
        ELSE /\ minute_requests' = [minute_requests EXCEPT ![key] = lim.minute]
             /\ second_requests' = [second_requests EXCEPT ![key] = lim.second]
             /\ admitted' = [admitted EXCEPT ![key] = IF lim.allowed THEN Append(@, clock) ELSE @]
             /\ rl_ret' = [client |-> key, allowed |-> lim.allowed, reason |-> lim.reason]
             /\ UNCHANGED <<clock, rl_lock, rl_pc, rl_client, rl_now, rl_cut>>
             /\ UNCHANGED <<fsVars, abVars>>
             /\ UNCHANGED <<pm_lock, pm_pc, pm_model, pm_obj, pm_ret, attempts>>
             /\ IF Denied(lim)
                THEN Answer(429, None, lim.reason) /\ UNCHANGED <<slots, built, handed>>
                ELSE IF body = "empty"
                THEN Answer(400, None, "No data provided") /\ UNCHANGED <<slots, built, handed>>
                ELSE /\ slots' = [slots EXCEPT ![model_type] = got.slot]
                     /\ built' = IF got.slot # NoObj THEN built \cup {got.slot} ELSE built
                     /\ handed' = IF got.slot # NoObj THEN handed \cup {got.slot} ELSE handed
                     /\ IF got.raised # None
                        THEN Answer(500, got.init, str_e(model_type, got.raised))
                        ELSE IF got.slot = NoObj
                        THEN Answer(503, got.init, "Clinical model not trained. Run train_models_v2.py first.")
                        ELSE IF result.raised # None
                        THEN Reply(500, None, TRUE, str_e(model_type, result.raised))
                        ELSE IF ~result.success
                        THEN Reply(400, None, TRUE, "Missing required features: [...]")
                        ELSE Reply(200, None, TRUE, None)

(***************************************************************************)
(* Specifications                                                          *)
(***************************************************************************)
InitLoad == FsInitFaulty /\ PmInit /\ RlInit /\ AbInit /\ SrvInit /\ LogInit /\ DmInit

NextLoad ==
    \/ \E p \in Paths : LoadModel(p) /\ UNCHANGED <<pmVars, rlVars, abVars, srvVars, logVars, dmVars>>
    \/ \E m \in Models : NewPredictor(m) /\ UNCHANGED <<pmVars, rlVars, abVars, srvVars, logVars, dmVars>>

SpecLoad == InitLoad /\ [][NextLoad]_vars

InitPM == FsInitScenario /\ PmInit /\ RlInit /\ AbInit /\ SrvInit /\ LogInit /\ DmInit

NextPM ==
    \/ \E t \in Threads, m \in Models : PM_Call(t, m) /\ UNCHANGED <<fsVars, rlVars, abVars, srvVars, logVars, dmVars>>
    \/ \E t \in Threads : PM_Check1(t) /\ UNCHANGED <<fsVars, rlVars, abVars, srvVars, logVars, dmVars>>
    \/ \E t \in Threads : PM_Acquire(t) /\ UNCHANGED <<fsVars, rlVars, abVars, srvVars, logVars, dmVars>>
    \/ \E t \in Threads : PM_Check2(t) /\ UNCHANGED <<fsVars, rlVars, abVars, srvVars, logVars, dmVars>>
    \/ \E t \in Threads : PM_ConstructBegin(t) /\ UNCHANGED <<fsVars, rlVars, abVars, srvVars, logVars, dmVars>>
    \/ \E t \in Threads : PM_ConstructEnd(t) /\ UNCHANGED <<fsVars, rlVars, abVars, srvVars, logVars, dmVars>>
    \/ \E t \in Threads : PM_Return(t) /\ UNCHANGED <<fsVars, rlVars, abVars, srvVars, logVars, dmVars>>

SpecPM == InitPM /\ [][NextPM]_vars

\* The deployment is the healthy one wherever it plays no part.
FsInitHealthy ==
    /\ env = "production"
    /\ manifest = HealthyManifest
    /\ files = HealthyFiles
    /\ loaded = [op |-> "none"]

InitRL == FsInitHealthy /\ PmInit /\ RlInit /\ AbInit /\ SrvInit /\ LogInit /\ DmInit

NextRL ==
    \/ Tick /\ UNCHANGED <<fsVars, pmVars, abVars, srvVars, logVars, dmVars>>
    \/ \E t \in Threads, c \in Clients : RL_Acquire(t, c) /\ UNCHANGED <<fsVars, pmVars, abVars, srvVars, logVars, dmVars>>
    \/ \E t \in Threads : RL_PurgeMinute(t) /\ UNCHANGED <<fsVars, pmVars, abVars, srvVars, logVars, dmVars>>
    \/ \E t \in Threads : RL_PurgeSecond(t) /\ UNCHANGED <<fsVars, pmVars, abVars, srvVars, logVars, dmVars>>
    \/ \E t \in Threads : RL_Check(t) /\ UNCHANGED <<fsVars, pmVars, abVars, srvVars, logVars, dmVars>>
    \/ \E t \in Threads : RL_Append(t) /\ UNCHANGED <<fsVars, pmVars, abVars, srvVars, logVars, dmVars>>

SpecRL == InitRL /\ [][NextRL]_vars

InitAB == FsInitHealthy /\ PmInit /\ RlInit /\ AbInit /\ SrvInit /\ LogInit /\ DmInit

NextAB ==
    \/ \E n \in TestNames, sp \in SplitInputs :
          CreateTest(n, "v1", "v2", sp) /\ UNCHANGED <<fsVars, pmVars, rlVars, srvVars, logVars, dmVars>>
    \/ \E n \in TestNames, st \in StatusInputs :
          UpdateTestStatus(n, st) /\ UNCHANGED <<fsVars, pmVars, rlVars, srvVars, logVars, dmVars>>
    \/ \E n \in TestNames, dp \in BOOLEAN :
          DeleteTest(n, dp) /\ UNCHANGED <<fsVars, pmVars, rlVars, srvVars, logVars, dmVars>>
    \/ \E p \in Subjects, n \in RouteNames :
          RouteRequest(p, n) /\ UNCHANGED <<fsVars, pmVars, rlVars, srvVars, logVars, dmVars>>
    \/ \E n \in {"t1"}, p \in {"p2"} :
          /\ Len(predictions) < MaxLog
          /\ RecordPrediction(n, route_request(p, n)[1], p) /\ UNCHANGED <<fsVars, pmVars, rlVars, srvVars, logVars, dmVars>>
    \/ \E p \in {"p2"}, o \in Outcomes :
          RecordOutcome(p, o) /\ UNCHANGED <<fsVars, pmVars, rlVars, srvVars, logVars, dmVars>>
    \/ Restart /\ UNCHANGED <<fsVars, pmVars, rlVars, srvVars, logVars, dmVars>>

SpecAB == InitAB /\ [][NextAB]_vars

\* Two bursts of requests a minute apart, served one after the other (the
\* finer passing of time is SpecRL's part); an operator may create the test
\* the requests name.
InitServe == FsInitScenario /\ PmInit /\ RlInit /\ AbInit /\ SrvInit /\ LogInit /\ DmInit

NextServe ==
    \/ \E key \in Keys, m \in Models, body \in Bodies, n \in NamedTests :
          Serve(key, m, body, n) /\ UNCHANGED <<logVars, dmVars>>
    \/ Tick /\ clock' = MinuteWindow * TicksPerSecond
            /\ UNCHANGED <<fsVars, pmVars, abVars, srvVars, logVars, dmVars>>
    \/ CreateTest("t1", "v1", "v2", HashBuckets) /\ UNCHANGED <<fsVars, pmVars, rlVars, srvVars, logVars, dmVars>>

SpecServe == InitServe /\ [][NextServe]_vars

\* How many writes to a store file may fail in a run.
MaxIoFaults == 1

\* The lifecycle of tests over a store whose writes may fail.
InitStore == FsInitHealthy /\ PmInit /\ RlInit /\ AbStart(MaxIoFaults) /\ SrvInit /\ LogInit /\ DmInit

NextStore ==
    \/ \E n \in TestNames, sp \in SplitInputs :
          CreateTest(n, "v1", "v2", sp) /\ UNCHANGED <<fsVars, pmVars, rlVars, srvVars, logVars, dmVars>>
    \/ \E n \in TestNames, st \in StatusInputs :
          UpdateTestStatus(n, st) /\ UNCHANGED <<fsVars, pmVars, rlVars, srvVars, logVars, dmVars>>
    \/ \E n \in TestNames, dp \in BOOLEAN :
          DeleteTest(n, dp) /\ UNCHANGED <<fsVars, pmVars, rlVars, srvVars, logVars, dmVars>>
    \/ Restart /\ UNCHANGED <<fsVars, pmVars, rlVars, srvVars, logVars, dmVars>>

SpecStore == InitStore /\ [][NextStore]_vars

\* How many records the log of SpecLog holds at most: enough for a flush to
\* come due and an append to follow it.
MaxRecords == 11

\* One caller appending to, resolving and deleting from the prediction log,
\* with the process killed and restarted at any point.
InitLog == FsInitHealthy /\ PmInit /\ RlInit /\ AbInit /\ SrvInit /\ LogInit /\ DmInit

NextLog ==
    \/ CreateTest("t1", "v1", "v2", HashBuckets) /\ UNCHANGED <<fsVars, pmVars, rlVars, srvVars, logVars, dmVars>>
    \/ /\ Len(predictions) < MaxRecords
       /\ RecordPrediction("t1", "v2", "p2") /\ UNCHANGED <<fsVars, pmVars, rlVars, srvVars, logVars, dmVars>>
    \/ RecordOutcome("p2", "Diabetic") /\ UNCHANGED <<fsVars, pmVars, rlVars, srvVars, logVars, dmVars>>
    \/ \E dp \in BOOLEAN :
          DeleteTest("t1", dp) /\ UNCHANGED <<fsVars, pmVars, rlVars, srvVars, logVars, dmVars>>
    \/ Restart /\ UNCHANGED <<fsVars, pmVars, rlVars, srvVars, logVars, dmVars>>

SpecLog == InitLog /\ [][NextLog]_vars

\* Threads calling record_prediction at the same time; the process may be
\* killed, its threads with it, and started again.
InitFlush == FsInitHealthy /\ PmInit /\ RlInit /\ AbInit /\ SrvInit /\ LogInit /\ DmInit

NextFlush ==
    \/ \E t \in Threads :
          /\ Len(predictions) < MaxRecords
          /\ RP_Append(t, "t1", "v2", "p2")
          /\ UNCHANGED <<fsVars, pmVars, rlVars, srvVars, dmVars>>
    \/ \E t \in Threads : RP_Check(t) /\ UNCHANGED <<fsVars, pmVars, rlVars, srvVars, dmVars>>
    \/ \E t \in Threads : RP_Open(t) /\ UNCHANGED <<fsVars, pmVars, rlVars, srvVars, dmVars>>
    \/ \E t \in Threads : RP_Dump(t) /\ UNCHANGED <<fsVars, pmVars, rlVars, srvVars, dmVars>>
    \/ /\ Restart
       /\ rp_pc' = [t \in Threads |-> "idle"]
       /\ UNCHANGED <<fsVars, pmVars, rlVars, srvVars, dmVars>>

SpecFlush == InitFlush /\ [][NextFlush]_vars

\* How long the logs are that the checks of record_outcome and
\* get_comparison start from.
MaxInitLog == 3

\* Every sequence of at most n records drawn from kinds.
Logs(kinds, n) == UNION {[1..k -> kinds] : k \in 0..n}

\* A manager loaded from a store that holds the log and the tests.
AbLoaded(ts, log) ==
    /\ tests = ts
    /\ tests_file = [state |-> "ok", data |-> asdict_tests(ts)]
    /\ predictions = log
    /\ predictions_file = [state |-> "ok", data |-> log]
    /\ incarnation = 0
    /\ io_budget = 0
    /\ ab_ret = [op |-> "none"]
    /\ ab_pin = [set |-> FALSE]

\* record_outcome over logs of two subjects, resolved or not.
OutcomeKinds ==
    {[PredictionRecord("t1", "v1", p) EXCEPT !.actual_outcome = o] :
        p \in {"p2", "p91"}, o \in {None, "Diabetic"}}

InitOutcome ==
    /\ FsInitHealthy /\ PmInit /\ RlInit /\ SrvInit /\ LogInit /\ DmInit
    /\ \E log \in Logs(OutcomeKinds, MaxInitLog) : AbLoaded(<<>>, log)

NextOutcome ==
    \/ \E p \in {"p2", "p91"}, o \in Outcomes :
          RecordOutcome(p, o) /\ UNCHANGED <<fsVars, pmVars, rlVars, srvVars, logVars, dmVars>>
    \/ \E p \in {"p2", "p91"} :
          /\ Len(predictions) < MaxInitLog
          /\ RecordPrediction("t1", "v1", p)
          /\ UNCHANGED <<fsVars, pmVars, rlVars, srvVars, logVars, dmVars>>

SpecOutcome == InitOutcome /\ [][NextOutcome]_vars

\* get_comparison over logs of two tests and two versions, and over tests
\* of every pair of versions.
CompareKinds ==
    {[PredictionRecord(n, v, "p2") EXCEPT !.actual_outcome = o] :
        n \in {"t1", "t2"}, v \in Versions, o \in {None} \cup Outcomes}

CompareTests ==
    {<<>>} \cup {[n \in {"t1"} |-> ABTestConfig(bv, cv, HashBuckets \div 2)] :
                    bv \in Versions, cv \in Versions}

InitCompare ==
    /\ FsInitHealthy /\ PmInit /\ RlInit /\ SrvInit /\ LogInit /\ DmInit
    /\ \E ts \in CompareTests, log \in Logs(CompareKinds, MaxInitLog) : AbLoaded(ts, log)

NextCompare ==
    \/ \E n \in TestNames :
          GetComparison(n) /\ UNCHANGED <<fsVars, pmVars, rlVars, srvVars, logVars, dmVars>>
    \/ \E n \in {"t1", "t2"}, v \in Versions :
          /\ Len(predictions) < MaxInitLog
          /\ RecordPrediction(n, v, "p2")
          /\ UNCHANGED <<fsVars, pmVars, rlVars, srvVars, logVars, dmVars>>

SpecCompare == InitCompare /\ [][NextCompare]_vars

\* Requests to POST /predict against a healthy deployment during one second.
InitThrottle == FsInitHealthy /\ PmInit /\ RlInit /\ AbInit /\ SrvInit /\ LogInit /\ DmInit

NextThrottle ==
    \/ Tick /\ clock' <= SecondWindow * TicksPerSecond
            /\ UNCHANGED <<fsVars, pmVars, abVars, srvVars, logVars, dmVars>>
    \/ \E key \in Keys, model_type \in Models, body \in {"complete", "field_none"} :
          Serve(key, model_type, body, None) /\ UNCHANGED <<logVars, dmVars>>

SpecThrottle == InitThrottle /\ [][NextThrottle]_vars

\* Requests of several identities to one limiter, within one second and one
\* second later.
InitClients == FsInitHealthy /\ PmInit /\ RlStart /\ AbInit /\ SrvInit /\ LogInit /\ DmInit

NextClients ==
    \/ Tick /\ clock' = SecondWindow * TicksPerSecond
            /\ UNCHANGED <<fsVars, pmVars, abVars, srvVars, logVars, dmVars>>
    \/ \E header \in Headers, remote_addr \in Addresses :
          Throttle(header, remote_addr)
          /\ UNCHANGED <<fsVars, pmVars, abVars, srvVars, logVars, dmVars>>

SpecClients == InitClients /\ [][NextClients]_vars

\* Request threads asking for the A/B manager and the drift monitor.
InitSingleton == FsInitHealthy /\ PmInit /\ RlInit /\ AbInit /\ SrvInit /\ LogInit /\ DmInit

NextSingleton ==
    \/ \E t \in Threads, kind \in Kinds :
          SG_Test(t, kind) /\ UNCHANGED <<fsVars, pmVars, rlVars, abVars, logVars, dmVars>>
    \/ \E t \in Threads :
          SG_Construct(t) /\ UNCHANGED <<fsVars, pmVars, rlVars, abVars, logVars, dmVars>>
    \/ \E t \in Threads :
          SG_Assign(t) /\ UNCHANGED <<fsVars, pmVars, rlVars, abVars, logVars, dmVars>>
    \/ \E t \in Threads :
          SG_Return(t) /\ UNCHANGED <<fsVars, pmVars, rlVars, abVars, logVars, dmVars>>

SpecSingleton == InitSingleton /\ [][NextSingleton]_vars

\* Drift checks running while reference sets are installed.
InitDrift == FsInitHealthy /\ PmInit /\ RlInit /\ AbInit /\ SrvInit /\ LogInit /\ DmInit

NextDrift ==
    \/ \E r \in References :
          SetReference(r) /\ UNCHANGED <<fsVars, pmVars, rlVars, abVars, srvVars, logVars>>
    \/ \E t \in Threads :
          DM_Begin(t, <<"bmi", "age">>)
          /\ UNCHANGED <<fsVars, pmVars, rlVars, abVars, srvVars, logVars>>
    \/ \E t \in Threads :
          DM_Test(t) /\ UNCHANGED <<fsVars, pmVars, rlVars, abVars, srvVars, logVars>>
    \/ \E t \in Threads :
          DM_Read(t) /\ UNCHANGED <<fsVars, pmVars, rlVars, abVars, srvVars, logVars>>

SpecDrift == InitDrift /\ [][NextDrift]_vars

\* Alerts created and acknowledged as time passes.
InitAlerts == FsInitHealthy /\ PmInit /\ RlInit /\ AbInit /\ SrvInit /\ LogInit /\ DmInit

NextAlerts ==
    \/ Tick /\ UNCHANGED <<fsVars, pmVars, abVars, srvVars, logVars, dmVars>>
    \/ \E report \in Reports :
          CreateAlert(report) /\ UNCHANGED <<fsVars, pmVars, rlVars, abVars, srvVars, logVars>>
    \/ \E ts \in Instants :
          AcknowledgeAlert(ts) /\ UNCHANGED <<fsVars, pmVars, rlVars, abVars, srvVars, logVars>>

SpecAlerts == InitAlerts /\ [][NextAlerts]_vars

\* Drift checks of one caller against the reference that is set.
InitReport ==
    /\ FsInitHealthy /\ PmInit /\ RlInit /\ AbInit /\ SrvInit /\ LogInit
    /\ \E file \in ReferenceFiles : DmStart(file)

NextReport ==
    \/ \E r \in References :
          SetReference(r) /\ UNCHANGED <<fsVars, pmVars, rlVars, abVars, srvVars, logVars>>
    \/ \E current_data \in Batches :
          CheckFeatureDrift(current_data)
          /\ UNCHANGED <<fsVars, pmVars, rlVars, abVars, srvVars, logVars>>

SpecReport == InitReport /\ [][NextReport]_vars

(***************************************************************************)
(* Properties                                                              *)
(***************************************************************************)

\* ---- C10 ----
ManifestEntry(p) == manifest.entries[PathName(p)]
EntryMissing(p) == ~manifest.exists \/ ManifestEntry(p) = NoEntry
HashDiffers(p) ==
    /\ ~EntryMissing(p)
    /\ files[p] # Absent
    /\ compute_file_hash(files[p]) # ManifestEntry(p)
RaisedSecurityError(r) == r.raised = "SecurityError" /\ r.value = None /\ ~r.joblib

\* C10: safe_load_model raises SecurityError and never reaches joblib.load
\* when the file's digest differs from its manifest entry (in either mode) or
\* when, in production, the manifest or the file's entry is missing; in
\* development a missing manifest or entry logs a warning and joblib.load is
\* reached (returning the file's content when the file is there).
C10_SafeLoadIntegrity ==
    loaded.op = "safe_load_model" =>
        LET p == loaded.path
            r == loaded.res
        IN  /\ HashDiffers(p) => RaisedSecurityError(r)
            /\ (env = "production" /\ EntryMissing(p)) => RaisedSecurityError(r)
            /\ (env # "production" /\ EntryMissing(p)) =>
                  /\ r.logged = "warning"
                  /\ r.joblib
                  /\ r.raised # "SecurityError"
                  /\ files[p] # Absent => (r.raised = None /\ r.value = files[p])

\* A development-mode load of a file whose digest differs from its entry.
C10_Witness ==
    /\ loaded.op = "safe_load_model"
    /\ env = "development"
    /\ HashDiffers(loaded.path)
    /\ loaded.res.raised = "SecurityError"

\* ---- C1 ----
HandlesOf(m) == {h \in handed : h[1] = m}

C1_Inv ==
    \A m \in Models :
        Construct(m) = None =>
            /\ attempts[m] <= 1
            /\ Cardinality({h \in built : h[1] = m}) <= 1
            /\ Cardinality(HandlesOf(m)) <= 1
            /\ HandlesOf(m) \subseteq built
            /\ slots[m] # NoObj => slots[m] \in built
            /\ \A t \in Threads :
                  (pm_ret[t].kind = "handle" /\ pm_model[t] = m) => pm_ret[t].obj = slots[m]

C1_SlotStable == \A m \in Models : slots[m] # NoObj => slots'[m] = slots[m]

\* C1: for a model whose artifacts load, under every interleaving of callers
\* the constructor runs at most once, every handle returned is a completely
\* constructed object and is the one in the slot, and a slot that has been
\* set never changes.
C1_ExactlyOnce == []C1_Inv /\ [][C1_SlotStable]_vars

\* Two callers raced on the first get: one has constructed the object and is
\* about to return it, the other passed the unlocked test before that and
\* now holds the lock.
C1_Witness ==
    \E t1, t2 \in Threads :
        /\ t1 # t2
        /\ pm_model[t1] = pm_model[t2]
        /\ pm_pc[t1] = "return"
        /\ pm_pc[t2] = "check2"
        /\ attempts[pm_model[t1]] = 1
        /\ slots[pm_model[t1]] \in built

\* ---- C7 ----
\* C7 (as claimed): when a model's construction fails, the constructor is
\* invoked at most once however many callers race, no caller receives a
\* handle, and all callers observe the same failure.
C7_FailureOnce ==
    \A m \in Models :
        Construct(m) # None =>
            /\ attempts[m] <= 1
            /\ HandlesOf(m) = {}
            /\ \A t1, t2 \in Threads :
                  (/\ pm_model[t1] = m /\ pm_model[t2] = m
                   /\ pm_ret[t1].kind # "pending" /\ pm_ret[t2].kind # "pending")
                  => pm_ret[t1] = pm_ret[t2]

\* ---- C2 ----
\* How many timestamps admitted for client c lie inside the window of w
\* seconds that ends at clock reading at.
AdmittedInside(c, w, at) ==
    Cardinality({i \in 1..Len(admitted[c]) : admitted[c][i] > at - w * TicksPerSecond})

C2_Step ==
    \A t \in Threads :
        LET c == rl_client[t]
            inSecond == AdmittedInside(c, SecondWindow, rl_cut[t].s)
            inMinute == AdmittedInside(c, MinuteWindow, rl_cut[t].m)
        IN  /\ (rl_pc[t] = "check" /\ rl_pc'[t] # "check") =>
                /\ inSecond >= requests_per_second =>
                      (rl_pc'[t] = "idle" /\ ~rl_ret'.allowed /\ admitted' = admitted)
                /\ (inSecond < requests_per_second /\ inMinute < requests_per_minute) =>
                      rl_pc'[t] = "append"
            /\ (rl_pc[t] = "append" /\ rl_pc'[t] # "append") =>
                (rl_ret'.allowed /\ admitted'[c] = Append(admitted[c], rl_now[t]))

\* C2: a call made while requests_per_second timestamps admitted for the
\* client lie inside the last second (as of the call's purge) is rejected and
\* records nothing; a call made while fewer than that lie inside the last
\* second and fewer than requests_per_minute inside the last 60 seconds is
\* admitted.
C2_WindowLimit == [][C2_Step]_vars

\* The last call to return was rejected for the per-second limit, and a call
\* of the same client, made after the window elapsed, has passed both tests.
C2_Witness ==
    \E t \in Threads :
        /\ rl_pc[t] = "append"
        /\ rl_ret.client = rl_client[t]
        /\ ~rl_ret.allowed
        /\ rl_ret.reason = "rate limit exceeded (per second)"
        /\ Len(admitted[rl_client[t]]) >= requests_per_second
        /\ AdmittedInside(rl_client[t], SecondWindow, rl_cut[t].s) = 0

\* ---- C3 ----
InIsAllowed == {t \in Threads : rl_pc[t] # "idle"}

\* C3: at most one thread is inside is_allowed's locked section, and for
\* every client neither window list, nor the set of admitted timestamps
\* inside the last 1 s / 60 s, ever holds more than its limit.
C3_WindowBounds ==
    /\ Cardinality(InIsAllowed) <= 1
    /\ \A t \in InIsAllowed : rl_lock = t
    /\ \A c \in Clients :
          /\ Len(second_requests[c]) <= requests_per_second
          /\ Len(minute_requests[c]) <= requests_per_minute
          /\ AdmittedInside(c, SecondWindow, clock) <= requests_per_second
          /\ AdmittedInside(c, MinuteWindow, clock) <= requests_per_minute

\* Both windows of a client are full while a further call is being decided.
C3_Witness ==
    \E t \in Threads :
        /\ rl_pc[t] = "check"
        /\ Len(second_requests[rl_client[t]]) = requests_per_second
        /\ Len(minute_requests[rl_client[t]]) = requests_per_minute

\* ---- C4 ----
\* The pinned test is configured now exactly as it was when the pinned call
\* was routed.
PinnedTestUnchanged ==
    /\ ab_pin.set
    /\ ab_pin.test \in DOMAIN tests
    /\ tests[ab_pin.test] = ab_pin.config

RoutedFailSafe ==
    /\ ab_ret.op = "route_request"
    /\ \/ ab_ret.test \notin DOMAIN tests
       \/ tests[ab_ret.test].status # "active"

\* C5 as stated: the fail-safe answer is the baseline arm together with a
\* baseline model version.
C5_BaselineVersionReturned ==
    RoutedFailSafe => ab_ret.result[1] \in Versions /\ ab_ret.result[2] = "baseline"

\* C5: route_request answers ("default", "baseline") for a name that is not
\* a test and (the test's baseline_version, "baseline") for a test that is
\* not active, for every subject.
C5_FailSafeRouting ==
    RoutedFailSafe =>
        IF ab_ret.test \in DOMAIN tests
        THEN ab_ret.result = <<tests[ab_ret.test].baseline_version, "baseline">>
        ELSE ab_ret.result = <<"default", "baseline">>

\* A subject whose bucket is below the split of a paused test is routed to
\* the baseline.
C5_Witness ==
    /\ RoutedFailSafe
    /\ ab_ret.test \in DOMAIN tests
    /\ tests[ab_ret.test].status = "paused"
    /\ md5_low(ab_ret.subject) % HashBuckets < tests[ab_ret.test].traffic_split
    /\ ab_ret.result = <<"v1", "baseline">>

\* ---- C6 ----
\* The last call was route_request for an active test.
RoutedActive ==
    /\ ab_ret.op = "route_request"
    /\ ab_ret.test \in DOMAIN tests
    /\ tests[ab_ret.test].status = "active"

\* C6: for an active test the subject's bucket lies in 0 .. HashBuckets - 1
\* and the answer is the challenger (version and arm) iff the bucket is
\* strictly below traffic_split, else the baseline; a split of 0 sends every
\* subject to the baseline, a split of 1 every subject to the challenger.
C6_BucketRule ==
    RoutedActive =>
        LET cfg == tests[ab_ret.test]
            bucket == md5_low(ab_ret.subject) % HashBuckets
        IN  /\ bucket \in 0..(HashBuckets - 1)
            /\ ab_ret.result[2] \in {"baseline", "challenger"}
            /\ ab_ret.result[2] = "challenger" <=> bucket < cfg.traffic_split
            /\ ab_ret.result[1] = IF ab_ret.result[2] = "challenger"
                                  THEN cfg.challenger_version ELSE cfg.baseline_version
            /\ cfg.traffic_split = 0 => ab_ret.result[2] = "baseline"
            /\ cfg.traffic_split = HashBuckets => ab_ret.result[2] = "challenger"

\* A subject whose bucket equals the split is routed to the baseline.
C6_Witness ==
    /\ RoutedActive
    /\ tests[ab_ret.test].traffic_split > 0
    /\ md5_low(ab_ret.subject) % HashBuckets = tests[ab_ret.test].traffic_split
    /\ ab_ret.result = <<"v1", "baseline">>

\* ---- C8 ----
\* C8: a request to /predict that names an active A/B test and is answered
\* with a prediction leaves a PredictionRecord of that test in the log.
C8_RoutedAndRecorded ==
    (/\ response.op = "predict"
     /\ response.status = 200
     /\ response.test_name # None
     /\ response.named_active)
        => \E i \in DOMAIN predictions : predictions[i].test_name = response.test_name

\* ---- C9 ----
\* C9: an authenticated request to /predict is answered with 200, 400, 429
\* or 503, and with 503 whenever the constructor of the selected model
\* raised.
C9_StatusCodes ==
    (response.op = "predict" /\ response.status # 401) =>
        /\ response.status \in {200, 400, 429, 503}
        /\ response.init # None => response.status = 503

\* ---- C11 ----
\* The last call was create_test with a name that was taken or a split
\* outside [0, 1].
CreateRefused(before) ==
    /\ ab_ret'.op = "create_test"
    /\ ab_ret'.test \in DOMAIN before \/ ~(0 <= ab_ret'.split /\ ab_ret'.split <= HashBuckets)

C11_Step ==
    /\ CreateRefused(tests) =>
          /\ ab_ret'.raised = "ValueError"
          /\ tests' = tests
          /\ tests_file' = tests_file
    /\ (ab_ret'.op = "create_test" /\ ~CreateRefused(tests) /\ ab_ret' # ab_ret) =>
          /\ ab_ret'.raised = None
          /\ ab_ret'.test \in DOMAIN tests'

C11_SplitsInRange ==
    \A n \in DOMAIN tests : 0 <= tests[n].traffic_split /\ tests[n].traffic_split <= HashBuckets

\* C11: every configured test has a traffic_split in [0, 1] (names are the
\* keys of the configuration set), and a create_test call with a taken name
\* or a split outside [0, 1] raises ValueError and leaves the configuration
\* set and ab_tests.json as they were.
C11_CreateValidated == []C11_SplitsInRange /\ [][C11_Step]_vars

\* create_test was refused for its split while a test was configured and
\* stored.
C11_Witness ==
    /\ ab_ret.op = "create_test"
    /\ ab_ret.raised = "ValueError"
    /\ ab_ret.split > HashBuckets
    /\ DOMAIN tests # {}
    /\ tests_file.state = "ok"

\* ---- C12 ----
C12_StatusKnown == \A n \in DOMAIN tests : tests[n].status \in Statuses

C12_Step ==
    \A n \in DOMAIN tests \cap DOMAIN tests' :
        \/ tests'[n].status = tests[n].status
        \/ tests[n].status = "active" /\ tests'[n].status \in {"paused", "completed"}

\* C12: a test's status is always one of active, paused, completed, and it
\* changes only from active to paused or from active to completed.
C12_StatusTransitions == []C12_StatusKnown /\ [][C12_Step]_vars

\* ---- C13 ----
\* The last call was a lifecycle call that reported success: create_test
\* returned the test, update_test_status or delete_test returned True.
LifecycleSucceeded ==
    \/ ab_ret.op = "create_test" /\ ab_ret.raised = None
    \/ ab_ret.op \in {"update_test_status", "delete_test"} /\ ab_ret.value

\* C13: after a lifecycle call that reported success, a manager loaded from
\* ab_tests.json holds the tests the running manager holds, with the same
\* versions, traffic_split and status.
C13_StoreMatchesMemory == LifecycleSucceeded => load_tests(tests_file) = tests

\* ---- C14 ----
\* The records of the in-memory log that a manager loaded from
\* ab_predictions.json would not hold.
Unflushed ==
    LET stored == LoadFile(predictions_file) IN
    {i \in 1..Len(predictions) : i > Len(stored) \/ stored[i] # predictions[i]}

Flushing == {t \in Threads : rp_pc[t] = "dump"}

\* C15: under concurrent record_prediction calls at most one thread has
\* ab_predictions.json open for writing, and whenever no call is in
\* progress the file is at most FlushEvery - 1 records behind the log.
C15_SerializedFlush ==
    /\ Cardinality(Flushing) <= 1
    /\ (\A t \in Threads : rp_pc[t] = "idle") => Cardinality(Unflushed) <= FlushEvery - 1

\* ---- C16 ----
\* The records of the log the last record_outcome call was to resolve.
OpenFor(log, subject) ==
    {i \in 1..Len(log) :
        log[i].patient_hash = patient_hash(subject) /\ log[i].actual_outcome = None}

C16_Step ==
    ab_ret'.op = "record_outcome" =>
        LET hits == OpenFor(predictions, ab_ret'.subject) IN
        /\ Len(predictions') = Len(predictions)
        /\ \A i \in 1..Len(predictions) :
              predictions'[i] = IF i \in hits
                                THEN [predictions[i] EXCEPT !.actual_outcome = ab_ret'.outcome]
                                ELSE predictions[i]
        /\ ab_ret'.value = Cardinality(hits)
        /\ OpenFor(predictions', ab_ret'.subject) = {}
        /\ hits = {} => predictions_file' = predictions_file

\* C16: record_outcome sets the outcome on every record of the subject that
\* had none, changes no other record and no outcome already set, returns
\* the number of records it set, and leaves no record of the subject open,
\* so that the call repeated at once finds nothing to set.
C16_OutcomeBackfill == [][C16_Step]_vars

\* Two records of a subject were resolved by one call while a third record
\* of that subject kept the different outcome it already had.
C16_Witness ==
    /\ ab_ret.op = "record_outcome"
    /\ ab_ret.value = 2
    /\ \E i \in 1..Len(predictions) :
          /\ predictions[i].patient_hash = patient_hash(ab_ret.subject)
          /\ predictions[i].actual_outcome \notin {None, ab_ret.outcome}

\* ---- C17 ----
C17_Step ==
    incarnation' = incarnation =>
        /\ Len(predictions') >= Len(predictions)
        /\ \A i \in 1..Len(predictions) :
              \/ predictions'[i] = predictions[i]
              \/ /\ predictions[i].actual_outcome = None
                 /\ predictions'[i] =
                        [predictions[i] EXCEPT !.actual_outcome = predictions'[i].actual_outcome]

\* C17: no call to the manager removes or moves a record of the log, and
\* the only change to a record is its actual_outcome going from unset to
\* set.
C17_AppendOnly == [][C17_Step]_vars

\* ---- C18 ----
\* The records of the log that bear the test's name and the version.
RecordedFor(test_name, version) ==
    {i \in 1..Len(predictions) :
        predictions[i].test_name = test_name /\ predictions[i].model_version = version}

\* What the claim has get_comparison report for an arm whose records are idx.
ArmReport(idx) ==
    LET validated == {i \in idx : predictions[i].actual_outcome # None}
        correct == {i \in validated : predictions[i].prediction = predictions[i].actual_outcome}
    IN  IF validated = {} THEN [count |-> Cardinality(idx)]
        ELSE [count |-> Cardinality(idx), validated_count |-> Cardinality(validated),
              correct |-> Cardinality(correct)]

\* C18: for an existing test get_comparison reports per arm the number of
\* records bearing the test's name and the arm's version, {"count": 0} for
\* an arm without records, accuracy over the arm's records that bear an
\* outcome, and counts no record in both arms.
C18_ArmCounts ==
    (ab_ret.op = "get_comparison" /\ ~ab_ret.error) =>
        LET test == tests[ab_ret.test]
            b == RecordedFor(ab_ret.test, test.baseline_version)
            c == RecordedFor(ab_ret.test, test.challenger_version)
        IN  /\ ab_ret.baseline = ArmReport(b)
            /\ ab_ret.challenger = ArmReport(c)
            /\ b = {} => ab_ret.baseline = [count |-> 0]
            /\ c = {} => ab_ret.challenger = [count |-> 0]
            /\ ab_ret.baseline.count + ab_ret.challenger.count <= ab_ret.total_predictions

\* ---- C19 ----
\* C19: a drift check that ran while references were being installed did
\* not fail, and read all the features it evaluated from one reference set.
C19_OneReference ==
    dm_ret.op = "check_feature_drift" =>
        /\ dm_ret.raised = None
        /\ Cardinality({dm_ret.seen[f] : f \in DOMAIN dm_ret.seen}) <= 1

\* ---- C20 ----
C20_Step ==
    /\ (dm_ret'.op = "create_alert" /\ ~dm_ret'.has_drift) =>
          /\ dm_ret'.returned = None
          /\ alerts' = alerts
          /\ alerts_file' = alerts_file
    /\ (/\ dm_ret'.op = "acknowledge_alert"
        /\ \A i \in 1..Len(alerts) : alerts[i].timestamp # dm_ret'.timestamp) =>
          /\ dm_ret'.value = FALSE
          /\ alerts' = alerts
          /\ alerts_file' = alerts_file

\* C20: create_alert on a report without drift returns None, and
\* acknowledge_alert with a timestamp no alert bears returns False; both
\* leave the alert list and alerts.json as they were.
C20_QuietCalls == [][C20_Step]_vars

\* A report without drift was handed to create_alert while alerts were
\* listed and stored.
C20_Witness ==
    /\ dm_ret.op = "create_alert"
    /\ ~dm_ret.has_drift
    /\ dm_ret.returned = None
    /\ Len(alerts) > 0
    /\ alerts_file = [state |-> "ok", data |-> alerts]

\* ---- C21 ----
\* The entry of the batch that bears the feature.
MeasuredFor(current, f) ==
    current[CHOOSE i \in 1..Len(current) : current[i].feature = f]

\* The severity the thresholds give a PSI.
Graded(psi, severity) ==
    /\ severity = "none" <=> psi < 100
    /\ severity = "low" <=> (100 <= psi /\ psi < 200)
    /\ severity = "medium" <=> (200 <= psi /\ psi < 250)
    /\ severity = "high" <=> psi >= 250

\* C21: every evaluated feature is graded none / low / medium / high by its
\* PSI at the thresholds 0.1, 0.2 and 0.25, and the report's severity is the
\* highest grade among the evaluated features, none when there is none.
C21_SeverityGrades ==
    (dm_ret.op = "check_feature_drift" /\ dm_ret.raised = None) =>
        LET fd == dm_ret.report.feature_drifts
            ranks == {severity_order[fd[f].severity] : f \in DOMAIN fd} \cup {0}
        IN /\ \A f \in DOMAIN fd :
                Graded(MeasuredFor(dm_ret.current, f).psi, fd[f].severity)
           /\ severity_order[dm_ret.report.severity] \in ranks
           /\ \A k \in ranks : k <= severity_order[dm_ret.report.severity]

\* A check of two features graded medium and high reported high.
C21_Witness ==
    /\ dm_ret.op = "check_feature_drift"
    /\ dm_ret.reference # "none"
    /\ Len(dm_ret.current) = 2
    /\ DOMAIN dm_ret.report.feature_drifts = Features
    /\ {dm_ret.report.feature_drifts[f].severity : f \in Features} = {"medium", "high"}
    /\ dm_ret.current[1].psi = 250
    /\ dm_ret.report.severity = "high"

\* ---- C22 ----
\* The features of the batch.
InBatch(current) == {current[i].feature : i \in 1..Len(current)}

\* The features the reference of the check held.
InReference(id) ==
    IF id = "none" THEN {} ELSE (CHOOSE r \in References : r.id = id).features

\* C22: has_drift holds exactly when a feature of both the reference and the
\* batch has PSI >= 0.1 or a KS p-value below 0.05; the per-feature results
\* are those of the features on both sides, and the check does not fail.
C22_DriftIffShared ==
    (dm_ret.op = "check_feature_drift" /\ dm_ret.raised = None) =>
        LET shared == InBatch(dm_ret.current) \cap InReference(dm_ret.reference) IN
        /\ DOMAIN dm_ret.report.feature_drifts = shared
        /\ dm_ret.report.has_drift <=>
              \E f \in shared : \/ MeasuredFor(dm_ret.current, f).psi >= 100
                                 \/ MeasuredFor(dm_ret.current, f).ks_pvalue < 50

\* A batch whose age the reference lacks and whose bmi drifts by its KS
\* p-value alone was checked: drift on bmi, age in no result.
C22_Witness ==
    /\ dm_ret.op = "check_feature_drift"
    /\ dm_ret.reference = "ref-3"
    /\ InBatch(dm_ret.current) = Features
    /\ DOMAIN dm_ret.report.feature_drifts = {"bmi"}
    /\ MeasuredFor(dm_ret.current, "bmi").psi < 100
    /\ MeasuredFor(dm_ret.current, "age").psi >= 250
    /\ dm_ret.report.has_drift

\* ---- C23 ----
\* The reports a check against a set reference can return.
CheckedReports == {feature_loop(r, current, DriftReport) : r \in References, current \in Batches}

\* C23: a check run while no reference is available does not raise and
\* returns a result that no check against a set reference returns.
C23_NoReferenceExplicit ==
    (dm_ret.op = "check_feature_drift" /\ dm_ret.reference = "none") =>
        /\ dm_ret.raised = None
        /\ dm_ret.report \notin CheckedReports

\* ---- C24 ----
\* A required feature of the request is absent or null, or a feature lies
\* outside its range.
Rejectable(body) ==
    /\ body \in Bodies
    /\ \E f \in {"hba1c", "bmi"} :
        LET v == body_data(body)[f] IN
        \/ v.kind \in {"absent", "none"}
        \/ v.kind = "number" /\ (v.n < ranges[f].min_val \/ v.n > ranges[f].max_val)

\* C24: a request that reaches predict with a required feature absent or
\* null, or with a feature outside its range, is answered 400 and neither
\* the scaler nor the clustering model nor the classifier is run for it.
C24_InvalidRejected ==
    (response.op = "predict" /\ Rejectable(response.predicted_on)) =>
        /\ response.status = 400
        /\ response.invoked = {}

\* ---- C25 ----
\* The client already has its limit of admitted requests inside the last
\* minute, respectively the last second.
MinuteFull(c) == AdmittedInside(c, MinuteWindow, clock) >= requests_per_minute
SecondFull(c) == AdmittedInside(c, SecondWindow, clock) >= requests_per_second

\* A step that handles an authenticated request: not the passing of time,
\* not a call of the A/B manager, and not a request refused for its key.
AuthenticatedRequest ==
    /\ clock' = clock
    /\ abVars' = abVars
    /\ response'.op = "predict"
    /\ response'.status # 401

C25_Step ==
    (AuthenticatedRequest /\ (MinuteFull(API_KEY) \/ SecondFull(API_KEY)))
    => /\ response'.status = 429
       /\ response'.error = IF MinuteFull(API_KEY) THEN "rate limit exceeded (per minute)"
                             ELSE "rate limit exceeded (per second)"
       /\ response'.predicted_on = None
       /\ response'.invoked = {}
       /\ UNCHANGED <<fsVars, pmVars, logVars, admitted>>

\* C25: an authenticated request made while one of the client's windows is
\* full is answered 429 with the reason naming that window, and nothing of
\* the handler runs: no predictor is constructed or handed out, predict is
\* not called, no A/B state changes and no timestamp is recorded.
C25_DeniedBeforeHandler == [][C25_Step]_vars

\* A request was answered 429 for the per-minute window, the per-second
\* window having room, while the predictor it asked for had never been
\* constructed.
C25_Witness ==
    /\ response.op = "predict"
    /\ response.status = 429
    /\ response.error = "rate limit exceeded (per minute)"
    /\ slots[response.model_type] = NoObj
    /\ MinuteFull(API_KEY)
    /\ ~SecondFull(API_KEY)

\* ---- C26 ----
\* The text holds a path of the file system.
ExposesPath(text) ==
    text \in {"Model integrity verification failed: <filepath>",
              "[Errno 2] No such file or directory: '<filepath>'"}

\* C26: no response body of POST /predict holds a path of the file system.
C26_NoPathInBody ==
    response.op = "predict" => ~ExposesPath(response.error)

\* ---- C27 ----
\* The identity a request is counted under: its X-API-Key header when it has
\* one, else its origin address, else "unknown".
IdentityOf(r) ==
    CASE r.header # None -> r.header
      [] r.header = None /\ r.remote_addr # None -> r.remote_addr
      [] OTHER -> "unknown"

C27_Step ==
    clock' = clock =>
        LET c == IdentityOf(rl_ret') IN
        /\ rl_ret'.client = c
        /\ rl_ret'.allowed <=>
              /\ AdmittedInside(c, SecondWindow, clock) < requests_per_second
              /\ AdmittedInside(c, MinuteWindow, clock) < requests_per_minute
        /\ \A d \in Identities \ {c} :
              /\ minute_requests'[d] = minute_requests[d]
              /\ second_requests'[d] = second_requests[d]
              /\ admitted'[d] = admitted[d]

\* C27: a request is counted under its X-API-Key header when it has one,
\* else under its origin address, else under "unknown"; it is admitted
\* exactly when the requests admitted earlier under that identity leave room
\* in both windows, and it changes the windows of no other identity.
C27_PerClient == [][C27_Step]_vars

\* A request without a header was admitted under its address while the key
\* holder and the unknown client were at their per-second limit.
C27_Witness ==
    /\ rl_ret.header = None
    /\ rl_ret.client = "10.0.0.1"
    /\ rl_ret.allowed
    /\ AdmittedInside("key-a", SecondWindow, clock) >= requests_per_second
    /\ AdmittedInside("unknown", SecondWindow, clock) >= requests_per_second

\* ---- C28 ----
\* The timestamps of a list that have not left the window ending now.
Unexpired(list, window) ==
    SelectSeq(list, LAMBDA t : t > clock - window * TicksPerSecond)

C28_Step ==
    (clock' = clock /\ ~rl_ret'.allowed) =>
        LET c == rl_ret'.client IN
        /\ minute_requests'[c] = Unexpired(minute_requests[c], MinuteWindow)
        /\ second_requests'[c] = Unexpired(second_requests[c], SecondWindow)
        /\ admitted' = admitted

\* C28: a rejected is_allowed call leaves in both windows of the client
\* exactly the unexpired timestamps they held, and admits nothing: the
\* timestamps that decide the next admission are those of before the call.
C28_RejectionRecordsNothing == [][C28_Step]_vars

\* A client rejected for its per-minute window one second after its first
\* requests: the expired timestamps are gone from the per-second window,
\* the per-minute window holds its limit and nothing more.
C28_Witness ==
    /\ ~rl_ret.allowed
    /\ rl_ret.client = "key-a"
    /\ rl_ret.reason = "rate limit exceeded (per minute)"
    /\ clock = SecondWindow * TicksPerSecond
    /\ Len(minute_requests["key-a"]) = requests_per_minute
    /\ Len(second_requests["key-a"]) < requests_per_second
    /\ Len(admitted["key-a"]) = requests_per_minute

\* ---- C29 ----
\* Some acknowledge_alert call sets acknowledged on every alert that is not
\* acknowledged yet.
C29_EachReachable ==
    \A i \in 1..Len(alerts) :
        ~alerts[i].acknowledged => \E ts \in Instants : FirstAt(ts) = i

C29_Step ==
    /\ \A i \in 1..Len(alerts) :
          /\ alerts[i].acknowledged => alerts'[i].acknowledged
          /\ alerts'[i] # alerts[i] =>
                /\ dm_ret'.op = "acknowledge_alert"
                /\ dm_ret'.value = TRUE
                /\ alerts[i].timestamp = dm_ret'.timestamp
                /\ \A j \in 1..(i - 1) : alerts[j].timestamp # dm_ret'.timestamp
                /\ alerts'[i] = [alerts[i] EXCEPT !.acknowledged = TRUE]
    /\ Len(alerts') >= Len(alerts)

\* C29: every alert that is not acknowledged can be acknowledged by some
\* acknowledge_alert call; a successful call changes the first alert that
\* bears the timestamp and no other, and no alert goes back to
\* unacknowledged.
C29_IndividuallyAcknowledgeable == []C29_EachReachable /\ [][C29_Step]_vars

\* ---- C30 ----
\* C30: whatever the interleaving of the first calls, at most one
\* ABTestManager and at most one DriftMonitor is ever constructed, and every
\* caller is handed that one.
C30_OneInstance ==
    /\ \A kind \in Kinds : sg_made[kind] <= 1
    /\ \A t \in Threads : sg_call[t].got \in {0, 1}

====
